---- MODULE Spec2Model ----
(***************************************************************************)
(* A model of the construct lifecycle manager of OpenFluke/sparse:          *)
(* placement (fibonacciSphere and the first-fit filter of                   *)
(* SpawnMultipleConstructs), template loading, Construct.Spawn and the      *)
(* link registry.                                                           *)
(*                                                                          *)
(* Numbers.  Go's float64 is modelled as decimal fixed point: the integer   *)
(* v stands for v / Scale.  Every operation rounds its result to a multiple *)
(* of 1 / Scale, as float64 rounds to its grid, and NaN is a value of its   *)
(* own that every operation propagates and every comparison rejects.        *)
(* Strings are sequences of one-character strings, so that concatenation    *)
(* and prefixes are what they are in Go.                                    *)
(***************************************************************************)
EXTENDS Integers, Sequences, FiniteSets, Bags, TLC

\* ------------------------------------------------------------------
\* float64
\* ------------------------------------------------------------------

\* The fixed-point grid: v stands for v / Scale.
Scale == 1000

\* IEEE-754 not-a-number (0/0), a value outside the fixed-point range.
NaN == -2000000000

\* The float64 of the whole number k.
F(k) == k * Scale

IsNaN(a) == a = NaN

\* n / d rounded to the nearest integer (d > 0).
RoundDiv(n, d) == (n + (d \div 2)) \div d

FAdd(a, b) == IF IsNaN(a) \/ IsNaN(b) THEN NaN ELSE a + b

FSub(a, b) == IF IsNaN(a) \/ IsNaN(b) THEN NaN ELSE a - b

FMul(a, b) == IF IsNaN(a) \/ IsNaN(b) THEN NaN ELSE RoundDiv(a * b, Scale)

\* a / b.  0/0 is NaN.  The divisions of the modelled code (by the part
\* count, by n-1) have a zero dividend whenever the divisor is zero, so the
\* infinities of x/0 never arise.
FDiv(a, b) ==
    IF IsNaN(a) \/ IsNaN(b) \/ b = 0 THEN NaN
    ELSE IF b > 0 THEN RoundDiv(a * Scale, b)
    ELSE RoundDiv((0 - a) * Scale, 0 - b)

\* a < b, false when either side is NaN.
FLt(a, b) == ~IsNaN(a) /\ ~IsNaN(b) /\ a < b

\* a > b, false when either side is NaN.
FGt(a, b) == ~IsNaN(a) /\ ~IsNaN(b) /\ a > b

RECURSIVE IsqrtBetween(_, _, _)
\* The largest r in lo..hi with r * r <= n (lo * lo <= n).
IsqrtBetween(n, lo, hi) ==
    IF lo >= hi THEN lo
    ELSE LET mid == (lo + hi + 1) \div 2
         IN  IF mid * mid <= n THEN IsqrtBetween(n, mid, hi)
             ELSE IsqrtBetween(n, lo, mid - 1)

\* The integer square root of n >= 0.
Isqrt(n) == IsqrtBetween(n, 0, 46340)

\* math.Sqrt: NaN for a negative or NaN argument, exact on perfect squares.
FSqrt(a) == IF IsNaN(a) \/ a < 0 THEN NaN ELSE Isqrt(a * Scale)

\* math.Pi and its multiples on the grid.
FPi == 3142
FTwoPi == 6283
FHalfPi == 1571

\* cos x for 0 <= x <= pi/2: 1 - x^2/2! + x^4/4! - x^6/6! + x^8/8!.
CosQ(x) ==
    LET x2 == FMul(x, x)
        x4 == FMul(x2, x2)
        x6 == FMul(x4, x2)
        x8 == FMul(x4, x4)
    IN  F(1) - RoundDiv(x2, 2) + RoundDiv(x4, 24) - RoundDiv(x6, 720)
          + RoundDiv(x8, 40320)

\* sin x for 0 <= x <= pi/2: x - x^3/3! + x^5/5! - x^7/7! + x^9/9!.
SinQ(x) ==
    LET x2 == FMul(x, x)
        x3 == FMul(x2, x)
        x5 == FMul(x3, x2)
        x7 == FMul(x5, x2)
        x9 == FMul(x7, x2)
    IN  x - RoundDiv(x3, 6) + RoundDiv(x5, 120) - RoundDiv(x7, 5040)
          + RoundDiv(x9, 362880)

\* math.Cos of an angle theta >= 0, reduced to the first quadrant.
FCos(theta) ==
    IF IsNaN(theta) THEN NaN
    ELSE LET t == theta % FTwoPi
         IN  IF t <= FHalfPi THEN CosQ(t)
             ELSE IF t <= FPi THEN 0 - CosQ(FPi - t)
             ELSE IF t <= FPi + FHalfPi THEN 0 - CosQ(t - FPi)
             ELSE CosQ(FTwoPi - t)

\* math.Sin of an angle theta >= 0, reduced to the first quadrant.
FSin(theta) ==
    IF IsNaN(theta) THEN NaN
    ELSE LET t == theta % FTwoPi
         IN  IF t <= FHalfPi THEN SinQ(t)
             ELSE IF t <= FPi THEN SinQ(FPi - t)
             ELSE IF t <= FPi + FHalfPi THEN 0 - SinQ(t - FPi)
             ELSE 0 - SinQ(FTwoPi - t)

\* |a - b| <= tol on the grid; never true of NaN.
Near(a, b, tol) == ~IsNaN(a) /\ ~IsNaN(b) /\ a - b <= tol /\ b - a <= tol

\* sqrt(dx^2 + dy^2 + dz^2) of the difference of two points, as the code
\* computes it wherever it measures a distance.
Dist(p, q) ==
    LET dx == FSub(p[1], q[1])
        dy == FSub(p[2], q[2])
        dz == FSub(p[3], q[3])
    IN  FSqrt(FAdd(FAdd(FMul(dx, dx), FMul(dy, dy)), FMul(dz, dz)))

\* ------------------------------------------------------------------
\* strings
\* ------------------------------------------------------------------

\* strings.HasPrefix(s, p).
HasPrefix(s, p) == Len(p) <= Len(s) /\ SubSeq(s, 1, Len(p)) = p

\* The separator LoadConfigFromJSON puts between unit name and part name.
Underscore == <<"_">>

\* ------------------------------------------------------------------
\* helper.go: fibonacciSphere
\* ------------------------------------------------------------------

\* phi := math.Pi * (3 - math.Sqrt(5)), the golden angle 2.39996...
GoldenAngle == 2400

\* SpherePoint with r := sqrt(1 - y) for sqrt(1 - y*y).
SpherePointNoSquare(i, n, radius, center) ==
    LET y     == FSub(F(1), FMul(FDiv(F(i), F(n - 1)), F(2)))
        r     == FSqrt(FSub(F(1), y))
        theta == FMul(GoldenAngle, F(i))
        px    == FMul(FCos(theta), r)
        pz    == FMul(FSin(theta), r)
    IN  << FAdd(center[1], FMul(px, radius)),
           FAdd(center[2], FMul(y, radius)),
           FAdd(center[3], FMul(pz, radius)) >>

\* The body of the loop of fibonacciSphere for index i (0-based) of n.
SpherePoint(i, n, radius, center) ==
    LET y     == FSub(F(1), FMul(FDiv(F(i), F(n - 1)), F(2)))
        r     == FSqrt(FSub(F(1), FMul(y, y)))
        theta == FMul(GoldenAngle, F(i))
        px    == FMul(FCos(theta), r)
        pz    == FMul(FSin(theta), r)
    IN  << FAdd(center[1], FMul(px, radius)),
           FAdd(center[2], FMul(y, radius)),
           FAdd(center[3], FMul(pz, radius)) >>

\* fibonacciSphere whose loop stops one index early (i < n-1).
fibonacciSphereShort(n, radius, center) ==
    IF n = 0 THEN << >>
    ELSE IF n = 1 THEN << << FAdd(center[1], radius), center[2], center[3] >> >>
    ELSE [k \in 1..(n - 1) |->
            LET y     == FSub(F(1), FMul(FDiv(F(k - 1), F(n - 1)), F(2)))
                r     == FSqrt(FSub(F(1), FMul(y, y)))
                theta == FMul(GoldenAngle, F(k - 1))
            IN  << FAdd(center[1], FMul(FMul(FCos(theta), r), radius)),
                   FAdd(center[2], FMul(y, radius)),
                   FAdd(center[3], FMul(FMul(FSin(theta), r), radius)) >>]

\* fibonacciSphere of helper.go: n = 0 and n = 1 are special-cased.
fibonacciSphere(n, radius, center) ==
    IF n = 0 THEN << >>
    ELSE IF n = 1 THEN << << FAdd(center[1], radius), center[2], center[3] >> >>
    ELSE [k \in 1..n |-> SpherePoint(k - 1, n, radius, center)]

\* The older fibonacciSphere kept in the repository: the loop alone.
fibonacciSphereLoopOnly(n, radius, center) ==
    [k \in 1..n |-> SpherePoint(k - 1, n, radius, center)]

\* ------------------------------------------------------------------
\* SpawnMultipleConstructs: sizing, orbit radius, first-fit filter
\* ------------------------------------------------------------------

RECURSIVE SumCoord(_, _, _)
\* centroid[k] += cube.Position[k] over the first m cubes, from 0.
SumCoord(cubes, k, m) ==
    IF m = 0 THEN 0
    ELSE FAdd(SumCoord(cubes, k, m - 1), cubes[m].Position[k])

\* The centroid of a list of cubes: the sums divided by float64(len).
Centroid(cubes) ==
    LET count == F(Len(cubes))
    IN  << FDiv(SumCoord(cubes, 1, Len(cubes)), count),
           FDiv(SumCoord(cubes, 2, Len(cubes)), count),
           FDiv(SumCoord(cubes, 3, Len(cubes)), count) >>

RECURSIVE MaxDistanceUpTo(_, _, _)
\* maxDistance after the first m cubes: it starts at 0.0 and is replaced
\* by a cube's distance to the centroid when that is greater.
MaxDistanceUpTo(cubes, centroid, m) ==
    IF m = 0 THEN 0
    ELSE LET prev     == MaxDistanceUpTo(cubes, centroid, m - 1)
             distance == Dist(cubes[m].Position, centroid)
         IN  IF FGt(distance, prev) THEN distance ELSE prev

\* The bounding-sphere radius of a template.
MaxDistance(cubes) == MaxDistanceUpTo(cubes, Centroid(cubes), Len(cubes))

\* OrbitRadius taking the larger of the offset's magnitude and
\* 2 * maxDistance as the base.
OrbitRadiusMax(offset, maxDistance) ==
    LET mag  == FSqrt(FAdd(FAdd(FMul(offset[1], offset[1]),
                                FMul(offset[2], offset[2])),
                           FMul(offset[3], offset[3])))
        base == IF FGt(FMul(maxDistance, F(2)), mag)
                THEN FMul(maxDistance, F(2)) ELSE mag
    IN  FAdd(base, maxDistance)

\* The orbit radius: the offset's magnitude, 2 * maxDistance if that is
\* zero, plus maxDistance.
OrbitRadius(offset, maxDistance) ==
    LET mag  == FSqrt(FAdd(FAdd(FMul(offset[1], offset[1]),
                                FMul(offset[2], offset[2])),
                           FMul(offset[3], offset[3])))
        base == IF mag = 0 THEN FMul(maxDistance, F(2)) ELSE mag
    IN  FAdd(base, maxDistance)

\* minDistance := maxDistance * 4.
MinDistance(maxDistance) == FMul(maxDistance, F(4))

\* TooClose with distance <= minDistance for distance < minDistance.
TooCloseOrEqual(pos, used, minDistance) ==
    \E j \in 1..Len(used) :
        LET distance == Dist(pos, used[j])
        IN  ~IsNaN(distance) /\ ~IsNaN(minDistance) /\ distance <= minDistance

\* The inner loop of the filter: pos is closer than minDistance to some
\* already used position.
TooClose(pos, used, minDistance) ==
    \E j \in 1..Len(used) : FLt(Dist(pos, used[j]), minDistance)

RECURSIVE FilterUpTo(_, _, _)
\* availablePositions after the first m candidates (usedPositions is the
\* same list): a candidate is appended unless it is too close.
FilterUpTo(positions, minDistance, m) ==
    IF m = 0 THEN << >>
    ELSE LET used == FilterUpTo(positions, minDistance, m - 1)
         IN  IF TooClose(positions[m], used, minDistance) THEN used
             ELSE Append(used, positions[m])

\* The greedy first-fit filter of SpawnMultipleConstructs.
FilterPositions(positions, minDistance) ==
    FilterUpTo(positions, minDistance, Len(positions))

\* ------------------------------------------------------------------
\* helper.go: generateUnitID
\* ------------------------------------------------------------------

LowerLetters ==
    << "a", "b", "c", "d", "e", "f", "g", "h", "i", "j", "k", "l", "m",
       "n", "o", "p", "q", "r", "s", "t", "u", "v", "w", "x", "y", "z" >>

UpperLetters ==
    << "A", "B", "C", "D", "E", "F", "G", "H", "I", "J", "K", "L", "M",
       "N", "O", "P", "Q", "R", "S", "T", "U", "V", "W", "X", "Y", "Z" >>

\* strings.ToUpper of one character.
ToUpperChar(c) ==
    IF \E k \in 1..26 : LowerLetters[k] = c
    THEN UpperLetters[CHOOSE k \in 1..26 : LowerLetters[k] = c]
    ELSE c

\* strings.ToUpper.
ToUpper(s) == [k \in 1..Len(s) |-> ToUpperChar(s[k])]

Digits == << "0", "1", "2", "3", "4", "5", "6", "7", "8", "9" >>

RECURSIVE FormatNat(_)
\* The decimal digits of k >= 0.
FormatNat(k) ==
    IF k < 10 THEN << Digits[k + 1] >>
    ELSE Append(FormatNat(k \div 10), Digits[(k % 10) + 1])

\* fmt's %d.
FormatInt(k) == IF k < 0 THEN << "-" >> \o FormatNat(0 - k) ELSE FormatNat(k)

RECURSIVE ProjectCode(_, _)
\* The upper-cased first character of every non-empty "."-separated part
\* of domain; atStart says that the next character starts a part.
ProjectCode(domain, atStart) ==
    IF domain = << >> THEN << >>
    ELSE IF Head(domain) = "." THEN ProjectCode(Tail(domain), TRUE)
    ELSE IF atStart
         THEN << ToUpperChar(Head(domain)) >> \o ProjectCode(Tail(domain), FALSE)
    ELSE ProjectCode(Tail(domain), FALSE)

\* The format without the "-v" between generation and version.
generateUnitIDNoSeparator(role, domain, gen, version) ==
    << "[" >> \o ToUpper(role) \o << "]", "-" >> \o ProjectCode(domain, TRUE)
      \o << "-", "g", "e", "n" >> \o FormatInt(gen) \o FormatInt(version)

\* "[%s]-%s-gen%d-v%d" of the upper-cased role, the project code, gen, version.
generateUnitID(role, domain, gen, version) ==
    << "[" >> \o ToUpper(role) \o << "]", "-" >> \o ProjectCode(domain, TRUE)
      \o << "-", "g", "e", "n" >> \o FormatInt(gen)
      \o << "-", "v" >> \o FormatInt(version)

\* ------------------------------------------------------------------
\* Construct: LoadConfigFromJSON, Spawn, linkCubeChainsWithConfig
\* ------------------------------------------------------------------

\* unitName + "_" + name.
Prefixed(unitName, name) == unitName \o Underscore \o name

\* LoadConfigFromJSON without the loop over the chains.
LoadConfigCubesOnly(file, unitName) ==
    [ Cubes |-> [k \in 1..Len(file.Cubes) |->
                    [ Name     |-> Prefixed(unitName, file.Cubes[k].Name),
                      Position |-> file.Cubes[k].Position ]],
      Chains |-> file.Chains,
      JointType   |-> file.JointType,
      JointParams |-> file.JointParams ]

\* The Config LoadConfigFromJSON stores for a parsed file: every cube name
\* and every chain member prefixed, everything else as parsed.
LoadConfigFromJSON(file, unitName) ==
    [ Cubes |-> [k \in 1..Len(file.Cubes) |->
                    [ Name     |-> Prefixed(unitName, file.Cubes[k].Name),
                      Position |-> file.Cubes[k].Position ]],
      Chains |-> [k \in 1..Len(file.Chains) |->
                    [j \in 1..Len(file.Chains[k]) |->
                        Prefixed(unitName, file.Chains[k][j])]],
      JointType   |-> file.JointType,
      JointParams |-> file.JointParams ]

\* AdjustedCubes without subtracting the centroid.
AdjustedCubesNoRecentre(cubes, orbitPosition) ==
    [k \in 1..Len(cubes) |->
        [ Name |-> cubes[k].Name,
          Position |->
            [c \in 1..3 |-> FAdd(orbitPosition[c], cubes[k].Position[c])] ]]

\* The adjustedCubes of Construct.Spawn: every cube moved so that the
\* centroid of the copy lands on orbitPosition.
AdjustedCubes(cubes, orbitPosition) ==
    LET centroid == Centroid(cubes)
    IN  [k \in 1..Len(cubes) |->
            [ Name |-> cubes[k].Name,
              Position |->
                [c \in 1..3 |->
                    FAdd(orbitPosition[c],
                         FSub(cubes[k].Position[c], centroid[c]))] ]]

\* The suffix a spawned base cube's name carries.
BaseSuffix == << "_", "B", "A", "S", "E" >>

\* The adjustedChains of Construct.Spawn: every member + "_BASE".
AdjustedChains(chains) ==
    [k \in 1..Len(chains) |->
        [j \in 1..Len(chains[k]) |-> chains[k][j] \o BaseSuffix]]

\* fmt.Sprintf("joint_%s_%s_%s", jointType, cubeA, cubeB).
JointName(jointType, cubeA, cubeB) ==
    << "j", "o", "i", "n", "t", "_" >> \o jointType \o Underscore
      \o cubeA \o Underscore \o cubeB

RECURSIVE ChainLinksStar(_, _, _)
\* ChainLinksUpTo linking every member to the first one.
ChainLinksStar(chain, jointType, m) ==
    IF m <= 0 THEN << >>
    ELSE Append(ChainLinksStar(chain, jointType, m - 1),
                [ JointName |-> JointName(jointType, chain[1], chain[m + 1]),
                  CubeA     |-> chain[1],
                  CubeB     |-> chain[m + 1] ])

RECURSIVE ChainLinksUpTo(_, _, _)
\* The records the inner loop appends for one chain, for i = 0 .. m-1.
ChainLinksUpTo(chain, jointType, m) ==
    IF m <= 0 THEN << >>
    ELSE Append(ChainLinksUpTo(chain, jointType, m - 1),
                [ JointName |-> JointName(jointType, chain[m], chain[m + 1]),
                  CubeA     |-> chain[m],
                  CubeB     |-> chain[m + 1] ])

RECURSIVE LinksUpTo(_, _, _)
\* The records appended for the first m chains.
LinksUpTo(chains, jointType, m) ==
    IF m = 0 THEN << >>
    ELSE LinksUpTo(chains, jointType, m - 1)
           \o ChainLinksUpTo(chains[m], jointType, Len(chains[m]) - 1)

\* What linkCubeChainsWithConfig appends to globalCubeLinks.
LinkRecords(chains, jointType) == LinksUpTo(chains, jointType, Len(chains))

\* ------------------------------------------------------------------
\* state
\* ------------------------------------------------------------------

VARIABLES
    call,               \* a function under test: its name and arguments
    ret,                \* what it returned
    fleet,              \* the locals of one SpawnMultipleConstructs call
    con,                \* con[i]: the goroutine of construct i (1-based)
    globalCubeList,     \* engine.go: the registry of spawned cube names
    globalCubeLinks,    \* engine.go: the registry of joint links
    occupiedPositions,  \* engine.go: the claimed placements
    net,                \* connections dialled and messages written so far
    faults,             \* environment failures injected so far
    scanner,            \* part_007: the fields of one SparseScanner
    scan                \* the calls made on it: tasks, channel, probes so far

pureVars == <<call, ret>>

fleetVars ==
    <<fleet, con, globalCubeList, globalCubeLinks, occupiedPositions, net, faults>>

scanVars == <<scanner, scan>>

vars == <<call, ret, fleet, con, globalCubeList, globalCubeLinks,
          occupiedPositions, net, faults, scanner, scan>>

\* No function is under test.
PureIdle == call = [op |-> "none"] /\ ret = << >>

\* The zero value of SparseScanner (engine.go: var scanner = &SparseScanner{}).
ZeroScanner ==
    [ Hosts |-> << >>, StartPort |-> 0, PortStep |-> 0, NumPods |-> 0,
      Results |-> << >>, PlanetsMap |-> << >>, CubesMap |-> << >> ]

\* No scanner was constructed and no call made on one.
ScanIdle == scanner = ZeroScanner /\ scan = [pc |-> "idle"]

\* No fleet is being spawned.
FleetIdle ==
    /\ fleet = [pc |-> "idle"]
    /\ con = << >>
    /\ globalCubeList = << >>
    /\ globalCubeLinks = << >>
    /\ occupiedPositions = << >>
    /\ net = [dials |-> 0, sent |-> EmptyBag]
    /\ faults = 0

\* ------------------------------------------------------------------
\* inputs
\* ------------------------------------------------------------------

Pt(a, b, c) == << F(a), F(b), F(c) >>

Cube(name, position) == [Name |-> << name >>, Position |-> position]

\* Parsed template files.  One part (bounding radius 0), a chain of one.
TemplateOne ==
    [ Cubes  |-> << Cube("a", Pt(1, 2, 3)) >>,
      Chains |-> << << << "a" >> >> >>,
      JointType |-> << "h" >>, JointParams |-> [x |-> F(1)] ]

\* Two parts 2 apart (bounding radius 1), one chain of two.
TemplateBar ==
    [ Cubes  |-> << Cube("a", Pt(0, 0, 0)), Cube("b", Pt(2, 0, 0)) >>,
      Chains |-> << << << "a" >>, << "b" >> >> >>,
      JointType |-> << "h" >>, JointParams |-> [x |-> F(1)] ]

\* Two parts 10 apart (bounding radius 5); a chain of three, an empty
\* chain and a chain of one.
TemplatePair ==
    [ Cubes  |-> << Cube("a", Pt(-3, -4, 0)), Cube("b", Pt(3, 4, 0)) >>,
      Chains |-> << << << "a" >>, << "b" >>, << "a" >> >>, << >>,
                    << << "b" >> >> >>,
      JointType |-> << "h" >>, JointParams |-> [x |-> F(1)] ]

\* Three parts whose centroid is off the grid; one chain through all.
TemplateTri ==
    [ Cubes  |-> << Cube("a", Pt(0, 0, 0)), Cube("b", Pt(1, 0, 0)),
                    Cube("c", Pt(0, 1, 0)) >>,
      Chains |-> << << << "a" >>, << "b" >>, << "c" >> >> >>,
      JointType |-> << "h" >>, JointParams |-> [x |-> F(1)] ]

\* No part at all.
TemplateEmpty ==
    [ Cubes |-> << >>, Chains |-> << >>,
      JointType |-> << "h" >>, JointParams |-> [x |-> F(1)] ]

\* The arguments of firstSpawn's call that name the units.
Role == << "a", "r", "c" >>
Domain == << "o", ".", "c" >>
StartGen == 1
StartVersion == 1

\* The endpoint the caller names: not the package default.
FleetServerAddr == "10.0.0.2:14000"

\* ------------------------------------------------------------------
\* SpawnMultipleConstructs and the tasks it starts
\* ------------------------------------------------------------------

\* The most constructs one call is asked for.
MaxConstructs == 2

\* The most spawn tasks (constructs times parts) one call may start.
MaxTasks == 4

\* The most environment failures (unreadable file, refused dial, failed
\* write) injected into one run.
MaxFaults == 1

\* The outcomes of a step that can fail in the ways `failures`: a failure
\* is injected only while the run's budget lasts.
OkOr(failures) == {"ok"} \cup (IF faults < MaxFaults THEN failures ELSE {})

\* The capacity check off by one.
TooFewPositionsOffByOne(available, n) == Len(available) < n - 1

\* The capacity check: len(availablePositions) < numConstructs.
TooFewPositions(available, n) == Len(available) < n

\* The goroutine states of construct i before anything ran.
NewTask == [pc |-> "load", Config |-> << >>, orbit |-> << >>, parts |-> << >>]

\* Lines 281-359 of SpawnMultipleConstructs: the sizing load, the orbit
\* radius, the candidate positions, the first-fit filter and the two
\* early returns; then the goroutines are started.
StartFleet ==
    /\ fleet.pc = "start"
    /\ occupiedPositions' = << >>
    /\ \E outcome \in OkOr({"read"}) :
        IF outcome = "read"
        THEN /\ fleet' = [fleet EXCEPT !.pc = "done", !.result = "load_error"]
             /\ faults' = faults + 1
             /\ con' = con
        ELSE LET n           == fleet.numConstructs
                 sizing      == LoadConfigFromJSON(fleet.template,
                                   generateUnitID(Role, Domain, StartGen, StartVersion))
                 maxDistance == MaxDistance(sizing.Cubes)
                 radius      == OrbitRadius(fleet.offset, maxDistance)
                 positions   == fibonacciSphere(n, radius, fleet.planetCenter)
                 minDistance == MinDistance(maxDistance)
                 available   == FilterPositions(positions, minDistance)
                 computed    == [fleet EXCEPT !.maxDistance = maxDistance,
                                              !.radius = radius,
                                              !.positions = positions,
                                              !.minDistance = minDistance]
             IN  /\ faults' = faults
                 /\ IF Len(positions) # n
                    THEN /\ fleet' = [computed EXCEPT !.pc = "done",
                                                      !.result = "count_error"]
                         /\ con' = con
                    ELSE IF TooFewPositions(available, n)
                    THEN /\ fleet' = [computed EXCEPT
                                        !.availablePositions = available,
                                        !.pc = "done",
                                        !.result = "capacity_error"]
                         /\ con' = con
                    ELSE /\ fleet' = [computed EXCEPT
                                        !.availablePositions = available,
                                        !.unitNames =
                                            [k \in 1..n |->
                                                generateUnitID(Role, Domain,
                                                    StartGen + ((k - 1) \div 100),
                                                    StartVersion + ((k - 1) % 100))],
                                        !.pc = "spawning"]
                         /\ con' = [k \in 1..n |-> NewTask]
    /\ UNCHANGED <<globalCubeList, globalCubeLinks, net>>

\* The package constant serverAddr of engine.go.
DefaultServerAddr == "127.0.0.1:14000"

\* net after `dialled` more connections were opened and the JSON commands
\* of the set msgs were written, once each.  (The password written first on
\* every connection is no command and is not recorded.)
Wrote(n, dialled, msgs) ==
    [dials |-> n.dials + dialled, sent |-> n.sent (+) SetToBag(msgs)]

\* The check for NaN or Inf finding nothing.
HasNaNNever(position) == FALSE

\* math.IsNaN(coord) || math.IsInf(coord, 0) for some coordinate; the NaN of
\* the model stands for every non-finite value.
HasNaN(position) == \E c \in 1..3 : IsNaN(position[c])

\* The goroutine of construct i loads the template under its unit name
\* (lines 366-373); a load error ends the goroutine.
ConstructLoad(i) ==
    /\ fleet.pc = "spawning"
    /\ con[i].pc = "load"
    /\ \E outcome \in OkOr({"read"}) :
        IF outcome = "ok"
        THEN /\ con' = [con EXCEPT
                          ![i].Config = LoadConfigFromJSON(fleet.template,
                                                           fleet.unitNames[i]),
                          ![i].pc = "spawn"]
             /\ faults' = faults
        ELSE /\ con' = [con EXCEPT ![i].pc = "done"]
             /\ faults' = faults + 1
    /\ UNCHANGED <<fleet, globalCubeList, globalCubeLinks, occupiedPositions, net>>

\* The positions adjusted in the template's own cubes.
ConfigAfterSpawnInPlace(config, adjustedCubes) == [config EXCEPT !.Cubes = adjustedCubes]

\* c.Config after the loops of Construct.Spawn (lines 175-216): every
\* adjusted cube has a Position slice of its own (make and copy, lines
\* 178-182), so that the template's cubes are not written to.
ConfigAfterSpawn(config, adjustedCubes) == config

\* Construct.Spawn up to the fan-out (lines 171-251): the adjusted copy of
\* the cubes, the occupied slot, one spawn task per cube.
ConstructSpawn(i) ==
    /\ fleet.pc = "spawning"
    /\ con[i].pc = "spawn"
    /\ LET orbitPosition == fleet.availablePositions[i]
           adjustedCubes == AdjustedCubes(con[i].Config.Cubes, orbitPosition)
       IN  /\ occupiedPositions' =
                 Append(occupiedPositions,
                        [Position |-> orbitPosition, UnitName |-> fleet.unitNames[i]])
           /\ con' = [con EXCEPT
                        ![i].Config = ConfigAfterSpawn(con[i].Config, adjustedCubes),
                        ![i].orbit = orbitPosition,
                        ![i].parts = [p \in 1..Len(adjustedCubes) |->
                                        [pc |-> "run", cube |-> adjustedCubes[p]]],
                        ![i].pc = "parts"]
    /\ UNCHANGED <<fleet, globalCubeList, globalCubeLinks, net, faults>>

\* The record is appended whether or not spawn_cube was sent.
SpawnSentOrNot(out) == TRUE

\* spawnCubeWithConfig gets past the return of lines 106-109: spawn_cube
\* was written without error.
SpawnSent(out) == out = "ok"

\* spawnCubeWithConfig for part p of construct i: dial, write the
\* password, read, reject a non-finite position, send spawn_cube, record
\* <name>_BASE.  Each failure returns at once.
SpawnCube(i, p) ==
    /\ fleet.pc = "spawning"
    /\ con[i].pc = "parts"
    /\ con[i].parts[p].pc = "run"
    /\ LET cube == con[i].parts[p].cube
           addr == fleet.serverAddr
       IN  \E outcome \in OkOr({"dial", "auth", "send"}) :
            LET out == IF outcome \in {"ok", "send"} /\ HasNaN(cube.Position)
                       THEN "nan" ELSE outcome
            IN  /\ con' = [con EXCEPT ![i].parts[p].pc = "done"]
                /\ faults' = IF outcome = "ok" THEN faults ELSE faults + 1
                /\ net' = CASE out = "dial" -> net
                            [] out \in {"auth", "nan", "send"} -> Wrote(net, 1, {})
                            [] out = "ok" ->
                                 Wrote(net, 1,
                                       {[ type |-> "spawn_cube", addr |-> addr,
                                          cube_name |-> cube.Name,
                                          position |-> cube.Position ]})
                /\ globalCubeList' =
                      IF SpawnSent(out)
                      THEN Append(globalCubeList, cube.Name \o BaseSuffix)
                      ELSE globalCubeList
    /\ UNCHANGED <<fleet, globalCubeLinks, occupiedPositions>>

\* wg.Wait() of Construct.Spawn returning while a spawn task still runs.
PartsJoinedEarly(i) == TRUE

\* wg.Wait() of Construct.Spawn (line 252): every spawn task of construct i
\* has returned.
PartsJoined(i) == \A p \in DOMAIN con[i].parts : con[i].parts[p].pc = "done"

\* The rest of Construct.Spawn (lines 252-269): once every spawn task has
\* returned, linkCubeChainsWithConfig on the suffixed chains.  It records
\* the links after the command was sent and answered; an error ends the
\* goroutine before the unfreeze.
ConstructLink(i) ==
    /\ fleet.pc = "spawning"
    /\ con[i].pc = "parts"
    /\ PartsJoined(i)
    /\ LET chains == AdjustedChains(con[i].Config.Chains)
           addr   == fleet.serverAddr
       IN  \E outcome \in OkOr({"dial", "auth", "send"}) :
            /\ faults' = IF outcome = "ok" THEN faults ELSE faults + 1
            /\ net' = CASE outcome = "dial" -> net
                        [] outcome \in {"auth", "send"} -> Wrote(net, 1, {})
                        [] outcome = "ok" ->
                             Wrote(net, 1,
                                   {[ type |-> "link_cube_chains", addr |-> addr,
                                      chains |-> chains,
                                      joint_type |-> con[i].Config.JointType,
                                      joint_params |-> con[i].Config.JointParams ]})
            /\ globalCubeLinks' =
                  IF outcome = "ok"
                  THEN globalCubeLinks \o LinkRecords(chains, con[i].Config.JointType)
                  ELSE globalCubeLinks
            /\ con' = [con EXCEPT ![i].pc = IF outcome = "ok" THEN "unfreeze"
                                            ELSE "done"]
    /\ UNCHANGED <<fleet, globalCubeList, occupiedPositions>>

\* The prefix test without the "_" after the unit name.
MatchingNoUnderscore(unitName) ==
    {k \in 1..Len(globalCubeList) : HasPrefix(globalCubeList[k], unitName)}

\* The indices of the globalCubeList entries that start with unitName + "_".
Matching(unitName) ==
    {k \in 1..Len(globalCubeList) :
        HasPrefix(globalCubeList[k], unitName \o Underscore)}

\* One task per matching cube, as targetedUnfreezeAllCubes and
\* targetedDespawnAllCubes start them: each dials the package's default
\* address, writes the password and sends its command; the tasks in
\* noDial fail to connect and those in noAuth fail to write the password.
Sweep(unitName, command, noDial, noAuth) ==
    LET sending == Matching(unitName) \ (noDial \cup noAuth)
    IN  [ dials |-> net.dials + Cardinality(Matching(unitName) \ noDial),
          sent  |-> net.sent
                      (+) [m \in {[ type |-> command, addr |-> DefaultServerAddr,
                                    cube_name |-> globalCubeList[k] ] : k \in sending}
                             |-> Cardinality({k \in sending :
                                    globalCubeList[k] = m.cube_name})] ]

\* The ways the tasks of one sweep can fail within the budget.
SweepFailures(unitName) ==
    {f \in [noDial : SUBSET Matching(unitName), noAuth : SUBSET Matching(unitName)] :
        /\ f.noDial \cap f.noAuth = {}
        /\ faults + Cardinality(f.noDial) + Cardinality(f.noAuth) <= MaxFaults}

\* targetedUnfreezeAllCubes(unitNames[i]) at the end of the goroutine of
\* construct i (lines 381-383).
ConstructUnfreeze(i) ==
    /\ fleet.pc = "spawning"
    /\ con[i].pc = "unfreeze"
    /\ \E f \in SweepFailures(fleet.unitNames[i]) :
        /\ net' = Sweep(fleet.unitNames[i], "freeze_cube", f.noDial, f.noAuth)
        /\ faults' = faults + Cardinality(f.noDial) + Cardinality(f.noAuth)
    /\ con' = [con EXCEPT ![i].pc = "done"]
    /\ UNCHANGED <<fleet, globalCubeList, globalCubeLinks, occupiedPositions>>

\* wg.Wait() of SpawnMultipleConstructs returning at once.
FleetJoinEarly ==
    /\ fleet.pc = "spawning"
    /\ fleet' = [fleet EXCEPT !.pc = "despawn", !.next = 1]
    /\ UNCHANGED <<con, globalCubeList, globalCubeLinks, occupiedPositions, net, faults>>

\* wg.Wait() of SpawnMultipleConstructs (line 387).
FleetJoin ==
    /\ fleet.pc = "spawning"
    /\ \A i \in DOMAIN con : con[i].pc = "done"
    /\ fleet' = [fleet EXCEPT !.pc = "despawn", !.next = 1]
    /\ UNCHANGED <<con, globalCubeList, globalCubeLinks, occupiedPositions, net, faults>>

\* One round of the teardown loop (lines 390-393): the unit's cubes are
\* despawned; the registries are left as they are.
FleetDespawn ==
    /\ fleet.pc = "despawn"
    /\ fleet.next <= fleet.numConstructs
    /\ \E f \in SweepFailures(fleet.unitNames[fleet.next]) :
        /\ net' = Sweep(fleet.unitNames[fleet.next], "despawn_cube", f.noDial, f.noAuth)
        /\ faults' = faults + Cardinality(f.noDial) + Cardinality(f.noAuth)
    /\ fleet' = [fleet EXCEPT !.next = fleet.next + 1]
    /\ UNCHANGED <<con, globalCubeList, globalCubeLinks, occupiedPositions>>

\* The loop is over: SpawnMultipleConstructs returns nil.
FleetReturn ==
    /\ fleet.pc = "despawn"
    /\ fleet.next > fleet.numConstructs
    /\ fleet' = [fleet EXCEPT !.pc = "done", !.result = "ok"]
    /\ UNCHANGED <<con, globalCubeList, globalCubeLinks, occupiedPositions, net, faults>>

\* A call of SpawnMultipleConstructs about to start.
NewFleet(n, template, offset, center, addr) ==
    [ pc |-> "start", numConstructs |-> n, template |-> template,
      offset |-> offset, planetCenter |-> center, serverAddr |-> addr,
      maxDistance |-> 0, radius |-> 0, minDistance |-> 0,
      positions |-> << >>, availablePositions |-> << >>, unitNames |-> << >>,
      next |-> 0, result |-> "none" ]

\* The program's registries are empty and nothing was dialled or written.
RegistriesInit ==
    /\ con = << >>
    /\ globalCubeList = << >>
    /\ globalCubeLinks = << >>
    /\ occupiedPositions = << >>
    /\ net = [dials |-> 0, sent |-> EmptyBag]
    /\ faults = 0

FleetTemplates == {TemplateOne, TemplateBar, TemplatePair, TemplateTri}
FleetOffsets == {Pt(0, 0, 0), Pt(3, 0, 0)}
FleetCenter == Pt(1, -2, 3)

Init ==
    /\ PureIdle
    /\ RegistriesInit
    /\ ScanIdle
    /\ \E n \in 0..MaxConstructs, template \in FleetTemplates,
          offset \in FleetOffsets :
        /\ n * Len(template.Cubes) <= MaxTasks
        /\ fleet = NewFleet(n, template, offset, FleetCenter, FleetServerAddr)

\* Next, one goroutine step at a time.
Load == \E i \in DOMAIN con : ConstructLoad(i) /\ UNCHANGED <<pureVars, scanVars>>
Spawn == \E i \in DOMAIN con : ConstructSpawn(i) /\ UNCHANGED <<pureVars, scanVars>>
SpawnPart ==
    \E i \in DOMAIN con : \E p \in DOMAIN con[i].parts :
        SpawnCube(i, p) /\ UNCHANGED <<pureVars, scanVars>>
Link == \E i \in DOMAIN con : ConstructLink(i) /\ UNCHANGED <<pureVars, scanVars>>
Unfreeze == \E i \in DOMAIN con : ConstructUnfreeze(i) /\ UNCHANGED <<pureVars, scanVars>>
Start == StartFleet /\ UNCHANGED <<pureVars, scanVars>>
Join == FleetJoin /\ UNCHANGED <<pureVars, scanVars>>
Despawn == FleetDespawn /\ UNCHANGED <<pureVars, scanVars>>
Return == FleetReturn /\ UNCHANGED <<pureVars, scanVars>>

Next ==
    \/ Start
    \/ Load
    \/ Spawn
    \/ SpawnPart
    \/ Link
    \/ Unfreeze
    \/ Join
    \/ Despawn
    \/ Return

Spec == Init /\ [][Next]_vars

\* ------------------------------------------------------------------
\* SpecPlace: the placement arithmetic of SpawnMultipleConstructs on a
\* wider range of templates, offsets and counts (no goroutine is run)
\* ------------------------------------------------------------------

\* The largest n fibonacciSphere is called with.
MaxPoints == 5

PlaceTemplates == {TemplateOne, TemplateBar, TemplatePair, TemplateTri, TemplateEmpty}
PlaceOffsets == {Pt(0, 0, 0), Pt(3, 0, 0), Pt(6, 8, 0), Pt(0, 0, 12), Pt(1, 2, 2)}
PlaceCenters == {Pt(0, 0, 0), FleetCenter}

PlaceInit ==
    /\ PureIdle
    /\ RegistriesInit
    /\ ScanIdle
    /\ \E n \in 0..MaxPoints, template \in PlaceTemplates,
          offset \in PlaceOffsets, center \in PlaceCenters :
        fleet = NewFleet(n, template, offset, center, FleetServerAddr)

SpecPlace == PlaceInit /\ [][Start]_vars

\* ------------------------------------------------------------------
\* SpecSphere: fibonacciSphere on bounded inputs
\* ------------------------------------------------------------------

\* Sphere radii 0, 1, 2.5 and 15.
SphereRadii == {0, F(1), 2500, F(15)}

SphereInit ==
    /\ FleetIdle
    /\ ScanIdle
    /\ call \in [op : {"none"}, n : 0..MaxPoints, radius : SphereRadii,
                 center : PlaceCenters]
    /\ ret = << >>

\* A call of helper.go's fibonacciSphere.
CallFibonacciSphere ==
    /\ call.op = "none"
    /\ call' = [call EXCEPT !.op = "fibonacciSphere"]
    /\ ret' = fibonacciSphere(call.n, call.radius, call.center)
    /\ UNCHANGED <<fleetVars, scanVars>>

\* A call of the older, loop-only fibonacciSphere.
CallFibonacciSphereLoopOnly ==
    /\ call.op = "none"
    /\ call' = [call EXCEPT !.op = "fibonacciSphereLoopOnly"]
    /\ ret' = fibonacciSphereLoopOnly(call.n, call.radius, call.center)
    /\ UNCHANGED <<fleetVars, scanVars>>

SphereNext == CallFibonacciSphere \/ CallFibonacciSphereLoopOnly

SpecSphere == SphereInit /\ [][SphereNext]_vars

\* ------------------------------------------------------------------
\* SpecFilter: the first-fit filter on arbitrary candidate lists
\* ------------------------------------------------------------------

\* The longest candidate list.
MaxCandidates == 3

\* Candidate points: 1, 2, 3 and 5 apart, a duplicate-able origin, and a
\* point with a NaN coordinate.
FilterPoints ==
    {Pt(0, 0, 0), Pt(1, 0, 0), Pt(0, 2, 0), Pt(3, 0, 4), << NaN, 0, 0 >>}

FilterDistances == {0, F(1), 1500, F(2), F(4)}

\* The sequences over S of length at most n.
SeqUpTo(S, n) == UNION {[1..m -> S] : m \in 0..n}

FilterInit ==
    /\ FleetIdle
    /\ ScanIdle
    /\ call \in [op : {"none"}, positions : SeqUpTo(FilterPoints, MaxCandidates),
                 minDistance : FilterDistances]
    /\ ret = << >>

\* The filter loop of SpawnMultipleConstructs (lines 331-350).
FilterCandidates ==
    /\ call.op = "none"
    /\ call' = [call EXCEPT !.op = "filter"]
    /\ ret' = FilterPositions(call.positions, call.minDistance)
    /\ UNCHANGED <<fleetVars, scanVars>>

SpecFilter == FilterInit /\ [][FilterCandidates]_vars

\* ------------------------------------------------------------------
\* SpecLoad: one template file loaded under two different unit names
\* ------------------------------------------------------------------

\* Unit names: two made by generateUnitID, and free-form ones, one of which
\* continues another after a "_".
LoadUnitNames ==
    { generateUnitID(Role, Domain, StartGen, StartVersion),
      generateUnitID(Role, Domain, StartGen, StartVersion + 10),
      << "u" >>, << "u", "_", "a" >>, << "u", "a" >>, << "v" >> }

\* A file whose part names contain the separator.
TemplateUnderscore ==
    [ Cubes  |-> << [Name |-> << "a", "_", "b" >>, Position |-> Pt(0, 0, 0)],
                    [Name |-> << "b" >>, Position |-> Pt(0, 1, 0)] >>,
      Chains |-> << << << "a", "_", "b" >>, << "b" >> >> >>,
      JointType |-> << "h" >>, JointParams |-> [x |-> F(1)] ]

LoadTemplates == {TemplateOne, TemplateBar, TemplatePair, TemplateTri, TemplateUnderscore}

LoadInit ==
    /\ FleetIdle
    /\ ScanIdle
    /\ call \in [op : {"none"}, file : LoadTemplates,
                 unitA : LoadUnitNames, unitB : LoadUnitNames]
    /\ call.unitA # call.unitB
    /\ ret = << >>

\* Two constructs load the same file, each under its own unit name.
LoadTwice ==
    /\ call.op = "none"
    /\ call' = [call EXCEPT !.op = "load"]
    /\ ret' = << LoadConfigFromJSON(call.file, call.unitA),
                 LoadConfigFromJSON(call.file, call.unitB) >>
    /\ UNCHANGED <<fleetVars, scanVars>>

SpecLoad == LoadInit /\ [][LoadTwice]_vars

\* ------------------------------------------------------------------
\* SpecTable: ctoai.go's GetCubesTable on loaded templates
\* ------------------------------------------------------------------

\* The digits of the fraction f / 1000 (0 < f < 1000) without trailing zeros.
FractionDigits(f) ==
    IF f % 100 = 0 THEN << Digits[(f \div 100) + 1] >>
    ELSE IF f % 10 = 0
         THEN << Digits[(f \div 100) + 1], Digits[((f \div 10) % 10) + 1] >>
    ELSE << Digits[(f \div 100) + 1], Digits[((f \div 10) % 10) + 1],
            Digits[(f % 10) + 1] >>

\* fmt's %g of a float64: the shortest decimal that reads back as the value
\* (no exponent in the range of the model), "NaN" for a NaN.
FormatG(a) ==
    IF IsNaN(a) THEN << "N", "a", "N" >>
    ELSE LET m == IF a < 0 THEN 0 - a ELSE a
         IN  (IF a < 0 THEN << "-" >> ELSE << >>)
               \o FormatNat(m \div Scale)
               \o (IF m % Scale = 0 THEN << >>
                   ELSE << "." >> \o FractionDigits(m % Scale))

Zero == << "0" >>

\* GetCubesTable with the y and z columns exchanged.
GetCubesTableSwapped(config) ==
    [i \in 1..Len(config.Cubes) |->
        LET cube == config.Cubes[i]
        IN  IF Len(cube.Position) = 3
            THEN << cube.Name, FormatG(cube.Position[1]), FormatG(cube.Position[3]),
                    FormatG(cube.Position[2]), Zero, Zero, Zero >>
            ELSE << cube.Name, Zero, Zero, Zero, Zero, Zero, Zero >>]

\* Construct.GetCubesTable (ctoai.go 63-85): one row per cube, the
\* coordinates printed with %g when the position has three components and
\* "0" otherwise, the rotation always "0".
GetCubesTable(config) ==
    [i \in 1..Len(config.Cubes) |->
        LET cube == config.Cubes[i]
        IN  IF Len(cube.Position) = 3
            THEN << cube.Name, FormatG(cube.Position[1]), FormatG(cube.Position[2]),
                    FormatG(cube.Position[3]), Zero, Zero, Zero >>
            ELSE << cube.Name, Zero, Zero, Zero, Zero, Zero, Zero >>]

\* The most parts of a template whose table is taken.
MaxRows == 2

\* Parts of a template file: whole, fractional and negative coordinates.
TableCubes ==
    { Cube("a", Pt(0, 0, 0)), Cube("b", Pt(1, -2, 30)),
      Cube("a", << 3600, 0 - 250, 12005 >>), Cube("c", << 10, 100100, 0 - 1 >>),
      Cube("0", << 0 - 7010, 999, 500 >>) }

TableInit ==
    /\ FleetIdle
    /\ ScanIdle
    /\ \E cubes \in SeqUpTo(TableCubes, MaxRows), unitName \in {<< "u" >>, << "v", "1" >>} :
          call = [ op |-> "none",
                   Config |-> LoadConfigFromJSON(
                                 [ Cubes |-> cubes, Chains |-> << >>,
                                   JointType |-> << "h" >>,
                                   JointParams |-> [x |-> F(1)] ], unitName) ]
    /\ ret = << >>

\* c.GetCubesTable() on the loaded construct.
CallGetCubesTable ==
    /\ call.op = "none"
    /\ call' = [call EXCEPT !.op = "GetCubesTable"]
    /\ ret' = GetCubesTable(call.Config)
    /\ UNCHANGED <<fleetVars, scanVars>>

SpecTable == TableInit /\ [][CallGetCubesTable]_vars

\* ------------------------------------------------------------------
\* part_007: SparseScanner
\* ------------------------------------------------------------------

\* The constants startPort and portStep of part_007.
ScanStartPort == 10002
ScanPortStep == 3

\* JSON values as encoding/json decodes them into interface{}.
JNull == [t |-> "null", v |-> 0]
JStr(s) == [t |-> "str", v |-> s]
JNum(n) == [t |-> "num", v |-> n]
JArr(a) == [t |-> "arr", v |-> a]
JObj(f) == [t |-> "obj", v |-> f]

\* What read() returned: a text that is no JSON document (the empty text of
\* a read that timed out included), or the text of the JSON value v.
Garbage == [json |-> FALSE, value |-> JNull]
Text(v) == [json |-> TRUE, value |-> v]

\* helper.go's toStringArray: the strings of a JSON array, anything else
\* in it dropped; no string at all for nil or a value that is no array.
toStringArray(v) ==
    IF v.t = "arr"
    THEN LET strs == SelectSeq(v.v, LAMBDA e : e.t = "str")
         IN  [k \in 1..Len(strs) |-> strs[k].v]
    ELSE << >>

\* json.Unmarshal into a map[string]interface{}: an object or null decodes,
\* anything else is an error.
UnmarshalObject(raw) ==
    IF raw.json /\ raw.value.t = "obj" THEN [ok |-> TRUE, m |-> raw.value.v]
    ELSE IF raw.json /\ raw.value.t = "null" THEN [ok |-> TRUE, m |-> << >>]
    ELSE [ok |-> FALSE, m |-> << >>]

\* cubeData["cubes"]: nil for a missing key.
Lookup(m, key) == IF key \in DOMAIN m THEN m[key] ELSE JNull

\* A JSON value decodes into a Planet: an object whose Name, if any, is a
\* string and whose Position, if any, is an object of numbers.
IsPlanet(e) ==
    /\ e.t = "obj"
    /\ "Name" \in DOMAIN e.v => e.v["Name"].t = "str"
    /\ "Position" \in DOMAIN e.v =>
          /\ e.v["Position"].t = "obj"
          /\ \A k \in DOMAIN e.v["Position"].v : e.v["Position"].v[k].t = "num"

\* The Planet a JSON object decodes into (a missing field is the zero value).
PlanetOf(e) ==
    [ Name     |-> IF "Name" \in DOMAIN e.v THEN e.v["Name"].v ELSE "",
      Position |-> IF "Position" \in DOMAIN e.v
                   THEN [k \in DOMAIN e.v["Position"].v |-> e.v["Position"].v[k].v]
                   ELSE << >> ]

\* json.Unmarshal into a map[string][]Planet: an object whose every value
\* is null or an array of planets decodes (null also does).
UnmarshalPlanets(raw) ==
    IF raw.json /\ raw.value.t = "null" THEN [ok |-> TRUE, m |-> << >>]
    ELSE IF /\ raw.json
            /\ raw.value.t = "obj"
            /\ \A k \in DOMAIN raw.value.v :
                  \/ raw.value.v[k].t = "null"
                  \/ /\ raw.value.v[k].t = "arr"
                     /\ \A j \in 1..Len(raw.value.v[k].v) : IsPlanet(raw.value.v[k].v[j])
    THEN [ok |-> TRUE,
          m  |-> [k \in DOMAIN raw.value.v |->
                    IF raw.value.v[k].t = "null" THEN << >>
                    ELSE [j \in 1..Len(raw.value.v[k].v) |->
                             PlanetOf(raw.value.v[k].v[j])]]]
    ELSE [ok |-> FALSE, m |-> << >>]

RECURSIVE Flatten(_, _)
\* allPlanets: the lists of the keys of planetData appended one after the
\* other (Go ranges over the map in an order of its choosing).
Flatten(m, keys) ==
    IF keys = {} THEN << >>
    ELSE LET k == CHOOSE x \in keys : TRUE
         IN  m[k] \o Flatten(m, keys \ {k})

\* strings.Contains on a text held as a sequence of tokens.
Contains(text, token) == \E k \in 1..Len(text) : text[k] = token

\* One step of a probe, as an observer of its connection sees it.
Ev(e, m) == [ev |-> e, msg |-> m]

\* A failed PodResult.
FailedResult(host, port, error) ==
    [ Host |-> host, Port |-> port, Success |-> FALSE, Error |-> error,
      Cubes |-> << >>, Planets |-> << >> ]

\* The auth check of checkPod passing whatever was read.
AuthenticatedAlways(authResp) == TRUE

\* strings.Contains(authResp, "auth_success").
Authenticated(authResp) == Contains(authResp, "auth_success")

\* The Error text of a failed probe, left empty.
ProbeErrorEmpty(failure, detail) == << >>

\* The Error text checkPod gives a failed probe; detail is the error of the
\* dial or write, or the auth response.
ProbeError(failure, detail) ==
    CASE failure = "dial"      -> << "Failed to connect: " >> \o detail
      [] failure = "auth_send" -> << "Failed to send auth: " >> \o detail
      [] failure = "auth"      -> << "Authentication failed: " >> \o detail
      [] failure = "cubes_send"    -> << "Failed to request cubes" >>
      [] failure = "cubes_parse"   -> << "Failed to parse cube list" >>
      [] failure = "planets_send"  -> << "Failed to request planets" >>
      [] failure = "planets_parse" -> << "Failed to parse planet list" >>

\* checkPod returning at a failure: the events so far, the probe marked
\* failed, and the deferred conn.Close() if the dial had succeeded.
ProbeFails(host, port, events, failure, detail) ==
    [ result |-> FailedResult(host, port, ProbeError(failure, detail)),
      trace  |-> events \o << Ev("stage", "failed") >>
                   \o (IF failure = "dial" THEN << >> ELSE << Ev("close", "") >>) ]

\* SparseScanner.checkPod (part_007 199-245) against a pod that behaves as
\* `pod` says: the PodResult and what happened on the connection, in order.
checkPod(host, port, pod) ==
    LET dialled == << Ev("stage", "pending"), Ev("dial", host) >>
        authed  == dialled \o << Ev("stage", "connected"), Ev("write", "auth") >>
        answered == authed \o << Ev("read", "auth") >>
        asked   == answered \o << Ev("stage", "authenticated"),
                                  Ev("write", "get_cube_list") >>
        cubeData == UnmarshalObject(pod.cubesRaw)
        cubes   == toStringArray(Lookup(cubeData.m, "cubes"))
        asked2  == asked \o << Ev("read", "get_cube_list"),
                               Ev("write", "get_planets") >>
        planetData == UnmarshalPlanets(pod.planetsRaw)
    IN  IF ~pod.dial
        THEN ProbeFails(host, port, dialled, "dial", << "refused" >>)
        ELSE IF ~pod.authWrite
        THEN ProbeFails(host, port, authed, "auth_send", << "broken pipe" >>)
        ELSE IF ~Authenticated(pod.authResp)
        THEN ProbeFails(host, port, answered, "auth", pod.authResp)
        ELSE IF ~pod.cubesWrite
        THEN ProbeFails(host, port, asked, "cubes_send", << >>)
        ELSE IF ~cubeData.ok
        THEN ProbeFails(host, port, asked \o << Ev("read", "get_cube_list") >>,
                        "cubes_parse", << >>)
        ELSE IF ~pod.planetsWrite
        THEN ProbeFails(host, port, asked2, "planets_send", << >>)
        ELSE IF ~planetData.ok
        THEN ProbeFails(host, port, asked2 \o << Ev("read", "get_planets") >>,
                        "planets_parse", << >>)
        ELSE [ result |-> [ Host |-> host, Port |-> port, Success |-> TRUE,
                            Error |-> << >>, Cubes |-> cubes,
                            Planets |-> Flatten(planetData.m, DOMAIN planetData.m) ],
               trace  |-> asked2 \o << Ev("read", "get_planets"),
                                       Ev("stage", "inventoried"),
                                       Ev("stage", "success"), Ev("close", "") >> ]

\* m with key bound to value.
Put(m, key, value) ==
    [k \in (DOMAIN m) \cup {key} |-> IF k = key THEN value ELSE m[k]]

\* planet.Position[axis]: 0 for a missing key.
Coordinate(planet, axis) ==
    IF axis \in DOMAIN planet.Position THEN planet.Position[axis] ELSE 0

RECURSIVE PutPlanets(_, _, _)
\* The loop over result.Planets, for its first n planets.
PutPlanets(m, result, n) ==
    IF n = 0 THEN m
    ELSE Put(PutPlanets(m, result, n - 1), result.Planets[n].Name,
             [ Name |-> result.Planets[n].Name,
               Coordinates |-> << Coordinate(result.Planets[n], "x"),
                                  Coordinate(result.Planets[n], "y"),
                                  Coordinate(result.Planets[n], "z") >>,
               Host |-> result.Host, Port |-> result.Port ])

RECURSIVE PutCubes(_, _, _)
\* The loop over result.Cubes, for its first n cubes.
PutCubes(m, result, n) ==
    IF n = 0 THEN m
    ELSE Put(PutCubes(m, result, n - 1), result.Cubes[n], result.Host)

\* The merge of one result into the two maps, skipped for a failed one
\* (the body of the loop of processResults; the same lines stand in
\* ScanSinglePod and AddPodResult).
Merged(s, result) ==
    IF result.Success
    THEN [s EXCEPT !.PlanetsMap = PutPlanets(s.PlanetsMap, result, Len(result.Planets)),
                   !.CubesMap = PutCubes(s.CubesMap, result, Len(result.Cubes))]
    ELSE s

RECURSIVE MergedUpTo(_, _)
\* processResults for the first n entries of s.Results.
MergedUpTo(s, n) ==
    IF n = 0 THEN s ELSE Merged(MergedUpTo(s, n - 1), s.Results[n])

\* SparseScanner.processResults (part_007 138-160).
processResults(s) == MergedUpTo(s, Len(s.Results))

\* ------------------------------------------------------------------
\* SpecScan: calls on one SparseScanner, against pods that answer well or
\* fail in one of the ways of ProbeFaults
\* ------------------------------------------------------------------

\* The most pods per host a scanner is set up for (numPods is 10 in
\* part_007), the most probes made in one run, the most calls in one run.
MaxPods == 2
MaxProbes == 2
MaxCalls == 2

ScanHostLists == {<< >>, << "h1" >>, << "h1", "h2" >>}

\* What a pod may do other than answer well.
ProbeFaults ==
    { "dial", "auth_send", "auth_denied",
      "cubes_send", "cubes_garbage", "cubes_missing", "cubes_not_array",
      "planets_send", "planets_garbage", "planets_shape" }

\* The cube-list document a pod answers with.
CubeListOf(kind, host) ==
    LET own == IF host = "h1" THEN "a" ELSE "b"
    IN  CASE kind = "cubes_garbage"   -> Garbage
          [] kind = "cubes_missing"   -> Text(JObj([status |-> JStr("ok")]))
          [] kind = "cubes_not_array" -> Text(JObj([cubes |-> JStr(own)]))
          [] OTHER -> Text(JObj([cubes |-> JArr(<< JStr(own), JNum(1), JStr("s") >>)]))

\* The planets document a pod answers with: every pod has a planet "p".
PlanetListOf(kind, host, port) ==
    CASE kind = "planets_garbage" -> Garbage
      [] kind = "planets_shape"   -> Text(JObj([planets |-> JNum(5)]))
      [] OTHER ->
           Text(JObj([planets |->
              JArr(<< JObj([ Name |-> JStr("p"),
                             Position |-> JObj([x |-> JNum(port), y |-> JNum(0)]) ]) >>)]))

\* The pod at host:port behaving in the way `kind`.
Behaviour(kind, host, port) ==
    [ dial         |-> kind # "dial",
      authWrite    |-> kind # "auth_send",
      authResp     |-> CASE kind = "auth_denied" -> << "auth_failed" >>
                         [] OTHER -> << "{", "auth_success", "}" >>,
      cubesWrite   |-> kind # "cubes_send",
      cubesRaw     |-> CubeListOf(kind, host),
      planetsWrite |-> kind # "planets_send",
      planetsRaw   |-> PlanetListOf(kind, host, port) ]

\* One probe: the pod's behaviour, the PodResult, the connection's events.
Probe(kind, host, port) ==
    LET run == checkPod(host, port, Behaviour(kind, host, port))
    IN  [kind |-> kind, result |-> run.result, trace |-> run.trace]

\* NewSparseScanner(hosts, startPort) (part_007 81-93), with numPods pods.
NewSparseScanner(hosts, startPort, numPods) ==
    [ Hosts |-> hosts, StartPort |-> startPort, PortStep |-> ScanPortStep,
      NumPods |-> numPods,
      Results |-> << >>, PlanetsMap |-> << >>, CubesMap |-> << >> ]

\* The calls on the scanner so far.
NewScan ==
    [ pc |-> "idle", op |-> "none", calls |-> 0, scans |-> 0,
      tasks |-> << >>, resultsChan |-> << >>, capacity |-> 0,
      probes |-> 0, probed |-> {}, held |-> {} ]

ScanInit ==
    /\ PureIdle
    /\ FleetIdle
    /\ \E hosts \in ScanHostLists, numPods \in 0..MaxPods :
          scanner = NewSparseScanner(hosts, ScanStartPort, numPods)
    /\ scan = NewScan

\* make(chan PodResult, s.NumPods*len(s.Hosts)) without a buffer.
ChanCapacityNone(s) == 0

\* The buffer of resultsChan: s.NumPods*len(s.Hosts).
ChanCapacity(s) == s.NumPods * Len(s.Hosts)

\* The goroutines ScanAllPods starts (lines 114-124): host by host, pod by
\* pod, each with its host and its port StartPort + i*PortStep.
ProbeTasks(s) ==
    [k \in 1..(Len(s.Hosts) * s.NumPods) |->
        [ host |-> s.Hosts[((k - 1) \div s.NumPods) + 1],
          port |-> s.StartPort + (((k - 1) % s.NumPods) * s.PortStep),
          pc   |-> "run",
          result |-> FailedResult("", 0, << >>) ]]

\* ScanAllPods up to wg.Wait() (lines 109-125).
ScanAllStart ==
    /\ scan.pc = "idle"
    /\ scan.calls < MaxCalls
    /\ scan.probes + (Len(scanner.Hosts) * scanner.NumPods) <= MaxProbes
    /\ scan' = [scan EXCEPT !.pc = "scanning", !.op = "ScanAllPods",
                            !.calls = scan.calls + 1,
                            !.tasks = ProbeTasks(scanner),
                            !.resultsChan = << >>,
                            !.capacity = ChanCapacity(scanner)]
    /\ UNCHANGED <<scanner, faults>>

\* result := s.checkPod(host, port) in goroutine t (line 120).
ProbeRun(t) ==
    /\ scan.pc = "scanning"
    /\ scan.tasks[t].pc = "run"
    /\ \E kind \in OkOr(ProbeFaults) :
        LET run == Probe(kind, scan.tasks[t].host, scan.tasks[t].port)
        IN  /\ scan' = [scan EXCEPT !.tasks[t].pc = "send",
                                    !.tasks[t].result = run.result,
                                    !.probes = scan.probes + 1,
                                    !.probed = scan.probed \cup {run}]
            /\ faults' = IF kind = "ok" THEN faults ELSE faults + 1
    /\ UNCHANGED scanner

\* resultsChan <- result, then the deferred wg.Done() (lines 119-121): the
\* send waits while the buffer is full.
ProbeSend(t) ==
    /\ scan.pc = "scanning"
    /\ scan.tasks[t].pc = "send"
    /\ Len(scan.resultsChan) < scan.capacity
    /\ scan' = [scan EXCEPT !.tasks[t].pc = "done",
                            !.resultsChan = Append(scan.resultsChan,
                                                   scan.tasks[t].result)]
    /\ UNCHANGED <<scanner, faults>>

\* The rest of ScanAllPods (lines 126-133): once every goroutine is done
\* the channel is closed and drained into Results, then processResults.
ScanAllFinish ==
    /\ scan.pc = "scanning"
    /\ \A t \in DOMAIN scan.tasks : scan.tasks[t].pc = "done"
    /\ scanner' = processResults(
                     [scanner EXCEPT !.Results = scanner.Results \o scan.resultsChan])
    /\ scan' = [scan EXCEPT !.pc = "idle", !.scans = scan.scans + 1,
                            !.tasks = << >>, !.resultsChan = << >>]
    /\ UNCHANGED faults

\* ScanSinglePod also appending its result to Results.
ScanSinglePodAppending(s, result) ==
    Merged([s EXCEPT !.Results = Append(s.Results, result)], result)

\* The scanner after ScanSinglePod got `result` from checkPod (part_007
\* 279-296): a successful result is merged into the maps.
AfterScanSinglePod(s, result) == Merged(s, result)

\* The scanner after AddPodResult(result) (part_007 298-314).
AfterAddPodResult(s, result) ==
    Merged([s EXCEPT !.Results = Append(s.Results, result)], result)

\* The scanner after InitSparseScanner(hosts, startPort) (part_007 95-105):
\* the settings and two fresh maps; Results is not assigned.
AfterInitSparseScanner(s, hosts, startPort) ==
    [s EXCEPT !.Hosts = hosts, !.StartPort = startPort,
              !.PortStep = ScanPortStep,
              !.PlanetsMap = << >>, !.CubesMap = << >>]

\* s.ScanSinglePod(host, port); the caller keeps the returned result.
ScanSinglePod(host, port) ==
    /\ scan.pc = "idle"
    /\ scan.calls < MaxCalls
    /\ scan.probes < MaxProbes
    /\ \E kind \in OkOr(ProbeFaults) :
        LET run == Probe(kind, host, port)
        IN  /\ scanner' = AfterScanSinglePod(scanner, run.result)
            /\ scan' = [scan EXCEPT !.op = "ScanSinglePod",
                                    !.calls = scan.calls + 1,
                                    !.probes = scan.probes + 1,
                                    !.probed = scan.probed \cup {run},
                                    !.held = scan.held \cup {run.result}]
            /\ faults' = IF kind = "ok" THEN faults ELSE faults + 1

\* s.AddPodResult(result) with a result the caller got from ScanSinglePod.
AddPodResult(result) ==
    /\ scan.pc = "idle"
    /\ scan.calls < MaxCalls
    /\ result \in scan.held
    /\ scanner' = AfterAddPodResult(scanner, result)
    /\ scan' = [scan EXCEPT !.op = "AddPodResult", !.calls = scan.calls + 1]
    /\ UNCHANGED faults

\* s.InitSparseScanner(hosts, startPort) once more, with the same settings
\* (swarm.go 24, 40).
InitSparseScanner ==
    /\ scan.pc = "idle"
    /\ scan.calls < MaxCalls
    /\ scanner' = AfterInitSparseScanner(scanner, scanner.Hosts, scanner.StartPort)
    /\ scan' = [scan EXCEPT !.op = "InitSparseScanner", !.calls = scan.calls + 1]
    /\ UNCHANGED faults

\* The endpoints ScanSinglePod is called with: one that ScanAllPods probes
\* too and one that it does not.
SingleEndpoints == {<< "h1", ScanStartPort >>, << "h2", ScanStartPort + 1 >>}

\* What no call on the scanner touches.
notScanVars ==
    <<call, ret, fleet, con, globalCubeList, globalCubeLinks, occupiedPositions, net>>

ScanAll == ScanAllStart /\ UNCHANGED notScanVars
ProbeCheck == \E t \in DOMAIN scan.tasks : ProbeRun(t) /\ UNCHANGED notScanVars
ProbeDeliver == \E t \in DOMAIN scan.tasks : ProbeSend(t) /\ UNCHANGED notScanVars
ScanCollect == ScanAllFinish /\ UNCHANGED notScanVars
ScanSingle ==
    \E endpoint \in SingleEndpoints :
        ScanSinglePod(endpoint[1], endpoint[2]) /\ UNCHANGED notScanVars
AddResult == \E result \in scan.held : AddPodResult(result) /\ UNCHANGED notScanVars
Reinit == InitSparseScanner /\ UNCHANGED notScanVars

ScanNext ==
    \/ ScanAll
    \/ ProbeCheck
    \/ ProbeDeliver
    \/ ScanCollect
    \/ ScanSingle
    \/ AddResult
    \/ Reinit

SpecScan == ScanInit /\ [][ScanNext]_vars

\* ------------------------------------------------------------------
\* SpecParts: one construct from the fan-out of Construct.Spawn on, with
\* adjusted positions that may be non-finite (orbitPosition + rel
\* overflows for one part and not for another)
\* ------------------------------------------------------------------

PartPositions == {Pt(1, 0, 0), Pt(0, 2, 5), << NaN, 0, 0 >>, << 0, F(2), NaN >>}

PartsInit ==
    /\ PureIdle
    /\ ScanIdle
    /\ globalCubeList = << >>
    /\ globalCubeLinks = << >>
    /\ net = [dials |-> 0, sent |-> EmptyBag]
    /\ faults = 0
    /\ \E template \in {TemplateBar, TemplateTri} :
       \E positions \in [1..Len(template.Cubes) -> PartPositions] :
          LET unitName == generateUnitID(Role, Domain, StartGen, StartVersion)
              Config   == LoadConfigFromJSON(template, unitName)
              orbit    == FleetCenter
          IN  /\ fleet = [NewFleet(1, template, Pt(0, 0, 0), FleetCenter,
                                   FleetServerAddr)
                            EXCEPT !.pc = "spawning",
                                   !.positions = << orbit >>,
                                   !.availablePositions = << orbit >>,
                                   !.unitNames = << unitName >>]
              /\ occupiedPositions = << [Position |-> orbit, UnitName |-> unitName] >>
              /\ con = << [ pc |-> "parts", Config |-> Config, orbit |-> orbit,
                            parts |-> [p \in 1..Len(Config.Cubes) |->
                                          [ pc |-> "run",
                                            cube |-> [ Name |-> Config.Cubes[p].Name,
                                                       Position |-> positions[p] ] ]] ] >>

PartsNext ==
    \/ SpawnPart
    \/ Link
    \/ Unfreeze
    \/ Join
    \/ Despawn
    \/ Return

SpecParts == PartsInit /\ [][PartsNext]_vars

\* ------------------------------------------------------------------
\* SpecTasks: the goroutines of the program one statement at a time:
\* their connections, their deferred calls and the registry mutexes
\* ------------------------------------------------------------------

\* A statement: what it does, to what, and the statement a failure of it
\* jumps to (0: it cannot fail).
Instr(op, arg, fail) == [op |-> op, arg |-> arg, fail |-> fail]

\* spawnCubeWithConfig with its deferred close left out.
SpawnCubeProgramNoDefer ==
    << Instr("dial", "plain", 8),
       Instr("write", "auth", 8),
       Instr("read", "auth", 0),
       Instr("write", "spawn_cube", 8),
       Instr("lock", "cube", 0),
       Instr("append", "cube", 0),
       Instr("unlock", "cube", 0),
       Instr("return", "", 0) >>

\* spawnCubeWithConfig (part_000 lines 71-115) for a finite position:
\* dial and defer the close, write the password, read, send spawn_cube,
\* append <name>_BASE under cubeListMutex.
SpawnCubeProgram ==
    << Instr("dial", "defer", 8),
       Instr("write", "auth", 8),
       Instr("read", "auth", 0),
       Instr("write", "spawn_cube", 8),
       Instr("lock", "cube", 0),
       Instr("append", "cube", 0),
       Instr("unlock", "cube", 0),
       Instr("return", "", 0) >>

\* linkCubeChainsWithConfig taking linkListMutex before it sends.
LinkProgramLockEarly ==
    << Instr("dial", "defer", 10),
       Instr("write", "auth", 10),
       Instr("read", "auth", 0),
       Instr("lock", "link", 0),
       Instr("defer_unlock", "link", 0),
       Instr("write", "link_cube_chains", 10),
       Instr("read", "link_cube_chains", 0),
       Instr("append", "link", 0),
       Instr("return", "", 0),
       Instr("return", "", 0) >>

\* linkCubeChainsWithConfig (part_000 lines 118-168): the records are
\* appended under linkListMutex, whose unlock is deferred after the close.
LinkProgram ==
    << Instr("dial", "defer", 10),
       Instr("write", "auth", 10),
       Instr("read", "auth", 0),
       Instr("write", "link_cube_chains", 10),
       Instr("read", "link_cube_chains", 0),
       Instr("lock", "link", 0),
       Instr("defer_unlock", "link", 0),
       Instr("append", "link", 0),
       Instr("return", "", 0),
       Instr("return", "", 0) >>

\* The sweep's goroutine sending its command before the password.
WorkerProgramCommandFirst(command) ==
    << Instr("dial", "defer", 5),
       Instr("write", command, 5),
       Instr("write", "auth", 5),
       Instr("read", "auth", 0),
       Instr("return", "", 0) >>

\* The goroutine of targetedUnfreezeAllCubes (engine.go lines 247-267) and
\* of targetedDespawnAllCubes (part_001 lines 17-36): the error of the
\* command's send is dropped.
WorkerProgram(command) ==
    << Instr("dial", "defer", 5),
       Instr("write", "auth", 5),
       Instr("read", "auth", 0),
       Instr("write", command, 5),
       Instr("return", "", 0) >>

\* The goroutine of construct u in SpawnMultipleConstructs (part_000 lines
\* 363-384) with Construct.Spawn (lines 238-269) in it: the load, the
\* occupied slot under positionMutex, the spawn tasks and their join, the
\* link, the unfreeze sweep.
ConstructProgram(u) ==
    << Instr("load", u, 12),
       Instr("lock", "position", 0),
       Instr("append", "position", 0),
       Instr("unlock", "position", 0),
       Instr("fork", "parts", 0),
       Instr("wait", "", 0),
       Instr("fork", "link", 0),
       Instr("wait", "", 0),
       Instr("check", "link", 12),
       Instr("scan", [command |-> "freeze_cube", unit |-> u], 0),
       Instr("wait", "", 0),
       Instr("return", "", 0) >>

\* The teardown loop of SpawnMultipleConstructs (lines 390-393) for the
\* units u..n: one despawn sweep after the other.
RECURSIVE TeardownProgram(_, _)
TeardownProgram(u, n) ==
    IF u > n
    THEN << >>
    ELSE << Instr("scan", [command |-> "despawn_cube", unit |-> u], 0),
            Instr("wait", "", 0) >> \o TeardownProgram(u + 1, n)

\* SpawnMultipleConstructs from line 356 on: the goroutines, their join,
\* the teardown.
FleetProgram(n) ==
    << Instr("fork", "constructs", 0), Instr("wait", "", 0) >>
        \o TeardownProgram(1, n) \o << Instr("return", "", 0) >>

\* setJointParam (engine.go lines 145-165): send, and read unless the send
\* failed; `next` is the statement after it.
SetJointParam(next) ==
    << Instr("write", "set_joint_param", next), Instr("read", "set_joint_param", 0) >>

\* rotateAllJointsForCube (engine.go lines 1132-1167) unrolled over the k
\* links of the cube, the block of the first one starting at statement b:
\* no deferred close; a failed dial goes on to the next link, a failed
\* password write closes and goes on.
RECURSIVE RotateProgram(_, _)
RotateProgram(b, k) ==
    IF k = 0
    THEN << Instr("return", "", 0) >>
    ELSE << Instr("dial", "plain", b + 14),
            Instr("write", "auth", b + 13),
            Instr("read", "auth", 0) >>
         \o SetJointParam(b + 5) \o SetJointParam(b + 7) \o SetJointParam(b + 9)
         \o SetJointParam(b + 11) \o SetJointParam(b + 13)
         \o << Instr("close", "", 0) >>
         \o RotateProgram(b + 14, k - 1)

\* checkPod (part_007 lines 199-245): every failure returns, the close
\* is deferred.
ProbeProgram ==
    << Instr("dial", "defer", 11),
       Instr("write", "auth", 11),
       Instr("read", "auth", 0),
       Instr("verify", "auth_success", 11),
       Instr("write", "get_cube_list", 11),
       Instr("read", "get_cube_list", 0),
       Instr("verify", "cubes", 11),
       Instr("write", "get_planets", 11),
       Instr("read", "get_planets", 0),
       Instr("verify", "planets", 11),
       Instr("return", "", 0) >>

\* maxRetries of nukeAllCubes.
NukeMaxRetries == 5

\* nukeAllCubes (part_001 lines 72-125; the goroutine of nukeAllCubePods,
\* part_002 lines 135-184, is the same): up to maxRetries passes, each an
\* inventory and a despawn per name; an empty inventory breaks out of the
\* loop, a failed request, read or parse returns.
NukeProgram ==
    << Instr("dial", "defer", 9),
       Instr("write", "auth", 9),
       Instr("read", "auth", 0),
       Instr("attempt", "", 9),
       Instr("write", "get_cube_list", 9),
       Instr("inventory", "", 9),
       Instr("despawn", "", 0),
       Instr("goto", "sleep", 4),
       Instr("return", "", 0) >>

\* A network event of a goroutine: what it did, with what, about which
\* cube, and whether it went through.
Event(op, arg, name, ok) == [op |-> op, arg |-> arg, name |-> name, ok |-> ok]

\* A goroutine (or the caller itself, parent 0) about to run prog.
StartTask(kind, prog, parent, unit, name) ==
    [ kind |-> kind, prog |-> prog, pc |-> 1, conn |-> << >>, dialled |-> 0,
      defers |-> << >>, parent |-> parent, unit |-> unit, name |-> name,
      err |-> FALSE, attempt |-> 0, cubes |-> << >>, log |-> << >> ]

\* The statement task t is at.
Current(t) == con[t].prog[con[t].pc]

At(t, op) == con[t].pc > 0 /\ Current(t).op = op

\* Task t after its statement went through, the event e logged.
Logged(t, e) == [con[t] EXCEPT !.pc = con[t].pc + 1, !.log = Append(con[t].log, e)]

\* Task t after its statement failed, the event e logged: it jumps, and an
\* error is returned if the jump is to the final return.
Failed(t, e) ==
    [con[t] EXCEPT !.pc = Current(t).fail,
                   !.err = (Current(t).fail = Len(con[t].prog)),
                   !.log = Append(con[t].log, e)]

\* Task t after a statement that is no network operation went through.
Stepped(t) == [con[t] EXCEPT !.pc = con[t].pc + 1]

\* Task t after a statement that is no network operation failed.
Jumped(t) ==
    [con[t] EXCEPT !.pc = Current(t).fail,
                   !.err = (Current(t).fail = Len(con[t].prog))]

\* The outcomes of the statement of task t.
Outcomes(t) == IF Current(t).fail = 0 THEN {"ok"} ELSE OkOr({"fail"})

\* The goroutines t started that have not returned.
Running(t) == {c \in DOMAIN con : con[c].parent = t /\ con[c].pc > 0}

\* The unit's configuration as its goroutine loaded it.
TaskConfig(u) == LoadConfigFromJSON(fleet.template, fleet.unitNames[u])

\* net.Dial: a new connection of task t, closed at return if deferred.
TaskDial(t) ==
    /\ At(t, "dial")
    /\ \E outcome \in Outcomes(t) :
        IF outcome = "ok"
        THEN LET c == << t, con[t].dialled + 1 >>
             IN  /\ con' = [con EXCEPT ![t] =
                              [Logged(t, Event("dial", c, con[t].name, TRUE)) EXCEPT
                                 !.conn = c,
                                 !.dialled = con[t].dialled + 1,
                                 !.defers = IF Current(t).arg = "defer"
                                            THEN Append(con[t].defers,
                                                        Instr("close", "", 0))
                                            ELSE con[t].defers]]
                 /\ net' = [net EXCEPT !.dials = net.dials + 1,
                                       !.open = net.open \cup {c}]
                 /\ faults' = faults
        ELSE /\ con' = [con EXCEPT ![t] =
                          Failed(t, Event("dial", << >>, con[t].name, FALSE))]
             /\ net' = net
             /\ faults' = faults + 1
    /\ UNCHANGED <<fleet, globalCubeList, globalCubeLinks, occupiedPositions>>

\* conn.Write of the password or of a JSON command.
TaskWrite(t) ==
    /\ At(t, "write")
    /\ \E outcome \in Outcomes(t) :
        IF outcome = "ok"
        THEN /\ con' = [con EXCEPT ![t] =
                          Logged(t, Event("write", Current(t).arg, con[t].name, TRUE))]
             /\ net' = [net EXCEPT !.sent = net.sent (+)
                          SetToBag({[type |-> Current(t).arg, conn |-> con[t].conn]})]
             /\ faults' = faults
        ELSE /\ con' = [con EXCEPT ![t] =
                          Failed(t, Event("write", Current(t).arg, con[t].name, FALSE))]
             /\ net' = net
             /\ faults' = faults + 1
    /\ UNCHANGED <<fleet, globalCubeList, globalCubeLinks, occupiedPositions>>

\* readResponse: it returns with or without an answer.
TaskRead(t) ==
    /\ At(t, "read")
    /\ con' = [con EXCEPT ![t] =
                 Logged(t, Event("read", Current(t).arg, con[t].name, TRUE))]
    /\ UNCHANGED <<fleet, globalCubeList, globalCubeLinks, occupiedPositions, net, faults>>

\* An answer is examined (auth_success, a parsable list): it may be bad.
TaskVerify(t) ==
    /\ At(t, "verify")
    /\ \E outcome \in Outcomes(t) :
        /\ con' = [con EXCEPT ![t] = IF outcome = "ok" THEN Stepped(t) ELSE Jumped(t)]
        /\ faults' = IF outcome = "ok" THEN faults ELSE faults + 1
    /\ UNCHANGED <<fleet, globalCubeList, globalCubeLinks, occupiedPositions, net>>

\* LoadConfigFromJSON in the goroutine of a construct.
TaskLoad(t) ==
    /\ At(t, "load")
    /\ \E outcome \in Outcomes(t) :
        /\ con' = [con EXCEPT ![t] = IF outcome = "ok" THEN Stepped(t) ELSE Jumped(t)]
        /\ faults' = IF outcome = "ok" THEN faults ELSE faults + 1
    /\ UNCHANGED <<fleet, globalCubeList, globalCubeLinks, occupiedPositions, net>>

\* mutex.Lock(): blocks while another goroutine holds it.
TaskLock(t) ==
    /\ At(t, "lock")
    /\ fleet.mutex[Current(t).arg] = 0
    /\ fleet' = [fleet EXCEPT !.mutex[Current(t).arg] = t]
    /\ con' = [con EXCEPT ![t] = Stepped(t)]
    /\ UNCHANGED <<globalCubeList, globalCubeLinks, occupiedPositions, net, faults>>

\* mutex.Unlock().
TaskUnlock(t) ==
    /\ At(t, "unlock")
    /\ fleet' = [fleet EXCEPT !.mutex[Current(t).arg] = 0]
    /\ con' = [con EXCEPT ![t] = Stepped(t)]
    /\ UNCHANGED <<globalCubeList, globalCubeLinks, occupiedPositions, net, faults>>

\* defer mutex.Unlock().
TaskDeferUnlock(t) ==
    /\ At(t, "defer_unlock")
    /\ con' = [con EXCEPT ![t] =
                 [Stepped(t) EXCEPT !.defers =
                     Append(con[t].defers, Instr("unlock", Current(t).arg, 0))]]
    /\ UNCHANGED <<fleet, globalCubeList, globalCubeLinks, occupiedPositions, net, faults>>

\* The append to a registry.
TaskAppend(t) ==
    /\ At(t, "append")
    /\ con' = [con EXCEPT ![t] = Stepped(t)]
    /\ globalCubeList' =
          IF Current(t).arg = "cube"
          THEN Append(globalCubeList, con[t].name \o BaseSuffix)
          ELSE globalCubeList
    /\ globalCubeLinks' =
          IF Current(t).arg = "link"
          THEN globalCubeLinks
                  \o LinkRecords(AdjustedChains(TaskConfig(con[t].unit).Chains),
                                 TaskConfig(con[t].unit).JointType)
          ELSE globalCubeLinks
    /\ occupiedPositions' =
          IF Current(t).arg = "position"
          THEN Append(occupiedPositions,
                      [ Position |-> fleet.availablePositions[con[t].unit],
                        UnitName |-> fleet.unitNames[con[t].unit] ])
          ELSE occupiedPositions
    /\ UNCHANGED <<fleet, net, faults>>

\* The goroutines one `go` loop starts, in the loop's order.
Forked(t) ==
    CASE Current(t).arg = "constructs" ->
            [u \in 1..fleet.numConstructs |->
                StartTask("construct", ConstructProgram(u), t, u, << >>)]
      [] Current(t).arg = "parts" ->
            [p \in 1..Len(TaskConfig(con[t].unit).Cubes) |->
                StartTask("spawn", SpawnCubeProgram, t, con[t].unit,
                          TaskConfig(con[t].unit).Cubes[p].Name)]
      [] Current(t).arg = "link" ->
            << StartTask("link", LinkProgram, t, con[t].unit, << >>) >>

TaskFork(t) ==
    /\ At(t, "fork")
    /\ con' = [con EXCEPT ![t] = Stepped(t)] \o Forked(t)
    /\ UNCHANGED <<fleet, globalCubeList, globalCubeLinks, occupiedPositions, net, faults>>

\* The names of list, from index k on, that start with prefix.
RECURSIVE MatchingFrom(_, _, _)
MatchingFrom(list, prefix, k) ==
    IF k > Len(list)
    THEN << >>
    ELSE (IF HasPrefix(list[k], prefix) THEN << list[k] >> ELSE << >>)
            \o MatchingFrom(list, prefix, k + 1)

\* The range loop of a sweep over globalCubeList: one goroutine per name
\* with the unit's prefix.  The list is read without a lock.
TaskScan(t) ==
    /\ At(t, "scan")
    /\ LET unit  == Current(t).arg.unit
           names == MatchingFrom(globalCubeList,
                                 fleet.unitNames[unit] \o Underscore, 1)
       IN  con' = [con EXCEPT ![t] = Stepped(t)]
                    \o [k \in 1..Len(names) |->
                          StartTask("worker", WorkerProgram(Current(t).arg.command),
                                    t, unit, names[k])]
    /\ UNCHANGED <<fleet, globalCubeList, globalCubeLinks, occupiedPositions, net, faults>>

\* wg.Wait(), or the return of a call.
TaskWait(t) ==
    /\ At(t, "wait")
    /\ Running(t) = {}
    /\ con' = [con EXCEPT ![t] = Stepped(t)]
    /\ UNCHANGED <<fleet, globalCubeList, globalCubeLinks, occupiedPositions, net, faults>>

\* if err := ...: the error of the call just made ends the caller.
TaskCheck(t) ==
    /\ At(t, "check")
    /\ con' = [con EXCEPT ![t] =
                 IF \E c \in DOMAIN con :
                       con[c].parent = t /\ con[c].kind = Current(t).arg /\ con[c].err
                 THEN Jumped(t) ELSE Stepped(t)]
    /\ UNCHANGED <<fleet, globalCubeList, globalCubeLinks, occupiedPositions, net, faults>>

\* conn.Close() called in line.
TaskClose(t) ==
    /\ At(t, "close")
    /\ net' = [net EXCEPT !.open = net.open \ {con[t].conn}]
    /\ con' = [con EXCEPT ![t] =
                 Logged(t, Event("close", con[t].conn, con[t].name, TRUE))]
    /\ UNCHANGED <<fleet, globalCubeList, globalCubeLinks, occupiedPositions, faults>>

\* The answers to get_cube_list: no JSON, an empty list, one name, two
\* names and a number, an object without "cubes".
NukeReplies == {"garbage", "empty", "one", "two", "missing"}

NukeReply(kind) ==
    CASE kind = "garbage" -> Garbage
      [] kind = "empty"   -> Text(JObj([cubes |-> JArr(<< >>)]))
      [] kind = "one"     -> Text(JObj([cubes |-> JArr(<< JStr("a") >>)]))
      [] kind = "two"     -> Text(JObj([cubes |->
                                  JArr(<< JStr("a"), JNum(1), JStr("b") >>)]))
      [] kind = "missing" -> Text(JObj([status |-> JStr("ok")]))

\* The retry loop allowing one pass more.
TaskAttemptOneMore(t) ==
    /\ At(t, "attempt")
    /\ con' = [con EXCEPT ![t] =
                 IF con[t].attempt <= NukeMaxRetries
                 THEN [Stepped(t) EXCEPT !.attempt = con[t].attempt + 1]
                 ELSE [con[t] EXCEPT !.pc = Current(t).fail]]
    /\ UNCHANGED <<fleet, globalCubeList, globalCubeLinks, occupiedPositions, net, faults>>

\* The head of the retry loop: for attempt := 1; attempt <= maxRetries.
TaskAttempt(t) ==
    /\ At(t, "attempt")
    /\ con' = [con EXCEPT ![t] =
                 IF con[t].attempt < NukeMaxRetries
                 THEN [Stepped(t) EXCEPT !.attempt = con[t].attempt + 1]
                 ELSE [con[t] EXCEPT !.pc = Current(t).fail]]
    /\ UNCHANGED <<fleet, globalCubeList, globalCubeLinks, occupiedPositions, net, faults>>

\* The inventory of a pass: readResponse, json.Unmarshal, toStringArray.
\* What cannot be parsed fails; an empty list breaks out of the loop.
TaskInventory(t) ==
    /\ At(t, "inventory")
    /\ \E kind \in NukeReplies :
        LET cubeData == UnmarshalObject(NukeReply(kind))
            cubes    == toStringArray(Lookup(cubeData.m, "cubes"))
        IN  con' = [con EXCEPT ![t] =
                      IF ~cubeData.ok
                      THEN Failed(t, Event("read", "get_cube_list", << >>, FALSE))
                      ELSE IF Len(cubes) = 0
                      THEN [con[t] EXCEPT
                              !.pc = Len(con[t].prog),
                              !.cubes = << >>,
                              !.log = Append(con[t].log,
                                             Event("read", "get_cube_list", << >>, TRUE))]
                      ELSE [Logged(t, Event("read", "get_cube_list", cubes, TRUE))
                              EXCEPT !.cubes = cubes]]
    /\ UNCHANGED <<fleet, globalCubeList, globalCubeLinks, occupiedPositions, net, faults>>

\* One round of the loop over the inventory: despawn_cube for its first
\* name not yet dealt with; a failed send is reported and the loop goes on.
TaskDespawn(t) ==
    /\ At(t, "despawn")
    /\ \E outcome \in OkOr({"fail"}) :
        LET e    == Event("write", "despawn_cube", Head(con[t].cubes), outcome = "ok")
            rest == Tail(con[t].cubes)
        IN  /\ con' = [con EXCEPT ![t] =
                         [con[t] EXCEPT !.cubes = rest,
                                        !.log = Append(con[t].log, e),
                                        !.pc = IF rest = << >> THEN con[t].pc + 1
                                               ELSE con[t].pc]]
            /\ net' = IF outcome = "ok"
                      THEN [net EXCEPT !.sent = net.sent (+)
                              SetToBag({[type |-> "despawn_cube", conn |-> con[t].conn]})]
                      ELSE net
            /\ faults' = IF outcome = "ok" THEN faults ELSE faults + 1
    /\ UNCHANGED <<fleet, globalCubeList, globalCubeLinks, occupiedPositions>>

\* The sleep at the end of a pass, and back to the head of the loop.
TaskGoto(t) ==
    /\ At(t, "goto")
    /\ con' = [con EXCEPT ![t].pc = Current(t).fail]
    /\ UNCHANGED <<fleet, globalCubeList, globalCubeLinks, occupiedPositions, net, faults>>

\* A return: the deferred calls run last in, first out, then the
\* goroutine is over.
TaskReturn(t) ==
    /\ At(t, "return")
    /\ IF con[t].defers = << >>
       THEN /\ con' = [con EXCEPT ![t].pc = 0]
            /\ UNCHANGED <<fleet, net>>
       ELSE LET d == con[t].defers[Len(con[t].defers)]
            IN  /\ con' = [con EXCEPT
                             ![t].defers =
                                SubSeq(con[t].defers, 1, Len(con[t].defers) - 1),
                             ![t].log =
                                IF d.op = "close"
                                THEN Append(con[t].log,
                                            Event("close", con[t].conn, con[t].name, TRUE))
                                ELSE con[t].log]
                /\ net' = IF d.op = "close"
                          THEN [net EXCEPT !.open = net.open \ {con[t].conn}]
                          ELSE net
                /\ fleet' = IF d.op = "unlock"
                            THEN [fleet EXCEPT !.mutex[d.arg] = 0]
                            ELSE fleet
    /\ UNCHANGED <<globalCubeList, globalCubeLinks, occupiedPositions, faults>>

\* What runs: one call of SpawnMultipleConstructs from its goroutines on,
\* a probe of one pod, the rotation of the joints of one cube of a linked
\* construct, or nukeAllCubes.
TaskFleets == { <<1, TemplateBar>>, <<2, TemplateOne>> }

\* A construct whose first cube has two joints.
TemplateStar ==
    [ Cubes  |-> << Cube("a", Pt(0, 0, 0)), Cube("b", Pt(2, 0, 0)) >>,
      Chains |-> << << << "b" >>, << "a" >>, << "b" >> >> >>,
      JointType |-> << "h" >>, JointParams |-> [x |-> F(1)] ]

\* The links rotateAllJointsForCube goes through: those with targetCube
\* at either end.
RotatedLinks(links, targetCube) ==
    SelectSeq(links, LAMBDA l : l.CubeA = targetCube \/ l.CubeB = targetCube)

TaskScenarios == {"fleet", "probe", "rotate", "nuke"}

TasksInit ==
    /\ PureIdle
    /\ ScanIdle
    /\ faults = 0
    /\ net = [dials |-> 0, sent |-> EmptyBag, open |-> {}]
    /\ \E f \in TaskFleets, scenario \in TaskScenarios :
        LET n           == f[1]
            template    == IF scenario = "rotate" THEN TemplateStar ELSE f[2]
            sizing      == LoadConfigFromJSON(template,
                              generateUnitID(Role, Domain, StartGen, StartVersion))
            maxDistance == MaxDistance(sizing.Cubes)
            radius      == OrbitRadius(Pt(3, 0, 0), maxDistance)
            positions   == fibonacciSphere(n, radius, FleetCenter)
            available   == FilterPositions(positions, MinDistance(maxDistance))
            chains      == AdjustedChains(sizing.Chains)
            links       == LinkRecords(chains, sizing.JointType)
        IN  /\ fleet = [ pc |-> "tasks",
                         mutex |-> [m \in {"cube", "link", "position"} |-> 0],
                         numConstructs |-> n, template |-> template,
                         availablePositions |-> available,
                         unitNames |-> [k \in 1..n |->
                                          generateUnitID(Role, Domain,
                                              StartGen + ((k - 1) \div 100),
                                              StartVersion + ((k - 1) % 100))] ]
            /\ CASE scenario = "fleet" ->
                      /\ con = << StartTask("fleet", FleetProgram(n), 0, 0, << >>) >>
                      /\ globalCubeList = << >>
                      /\ globalCubeLinks = << >>
                      /\ occupiedPositions = << >>
                 [] scenario = "probe" ->
                      /\ n = 1
                      /\ con = << StartTask("probe", ProbeProgram, 0, 0, << >>) >>
                      /\ globalCubeList = << >>
                      /\ globalCubeLinks = << >>
                      /\ occupiedPositions = << >>
                 [] scenario = "nuke" ->
                      /\ n = 1
                      /\ con = << StartTask("nuke", NukeProgram, 0, 0, << >>) >>
                      /\ globalCubeList = << >>
                      /\ globalCubeLinks = << >>
                      /\ occupiedPositions = << >>
                 [] scenario = "rotate" ->
                      /\ n = 1
                      /\ con = << StartTask("rotate",
                                     RotateProgram(1, Len(RotatedLinks(links,
                                        sizing.Cubes[1].Name \o BaseSuffix))),
                                     0, 0, sizing.Cubes[1].Name \o BaseSuffix) >>
                      /\ globalCubeList =
                            [p \in 1..Len(sizing.Cubes) |->
                                sizing.Cubes[p].Name \o BaseSuffix]
                      /\ globalCubeLinks = links
                      /\ occupiedPositions =
                            << [ Position |-> available[1],
                                 UnitName |-> generateUnitID(Role, Domain,
                                                  StartGen, StartVersion) ] >>

notTaskVars == <<pureVars, scanVars>>

Dial == \E t \in DOMAIN con : TaskDial(t) /\ UNCHANGED notTaskVars
Write == \E t \in DOMAIN con : TaskWrite(t) /\ UNCHANGED notTaskVars
Read == \E t \in DOMAIN con : TaskRead(t) /\ UNCHANGED notTaskVars
Verify == \E t \in DOMAIN con : TaskVerify(t) /\ UNCHANGED notTaskVars
LoadTemplate == \E t \in DOMAIN con : TaskLoad(t) /\ UNCHANGED notTaskVars
Lock == \E t \in DOMAIN con : TaskLock(t) /\ UNCHANGED notTaskVars
Unlock == \E t \in DOMAIN con : TaskUnlock(t) /\ UNCHANGED notTaskVars
DeferUnlock == \E t \in DOMAIN con : TaskDeferUnlock(t) /\ UNCHANGED notTaskVars
AppendRecord == \E t \in DOMAIN con : TaskAppend(t) /\ UNCHANGED notTaskVars
Fork == \E t \in DOMAIN con : TaskFork(t) /\ UNCHANGED notTaskVars
Scan == \E t \in DOMAIN con : TaskScan(t) /\ UNCHANGED notTaskVars
Wait == \E t \in DOMAIN con : TaskWait(t) /\ UNCHANGED notTaskVars
Check == \E t \in DOMAIN con : TaskCheck(t) /\ UNCHANGED notTaskVars
Close == \E t \in DOMAIN con : TaskClose(t) /\ UNCHANGED notTaskVars
ReturnTask == \E t \in DOMAIN con : TaskReturn(t) /\ UNCHANGED notTaskVars
Attempt == \E t \in DOMAIN con : TaskAttempt(t) /\ UNCHANGED notTaskVars
Inventory == \E t \in DOMAIN con : TaskInventory(t) /\ UNCHANGED notTaskVars
DespawnEach == \E t \in DOMAIN con : TaskDespawn(t) /\ UNCHANGED notTaskVars
Goto == \E t \in DOMAIN con : TaskGoto(t) /\ UNCHANGED notTaskVars

TasksNext ==
    \/ Dial
    \/ Write
    \/ Read
    \/ Verify
    \/ LoadTemplate
    \/ Lock
    \/ Unlock
    \/ DeferUnlock
    \/ AppendRecord
    \/ Fork
    \/ Scan
    \/ Wait
    \/ Check
    \/ Close
    \/ ReturnTask
    \/ Attempt
    \/ Inventory
    \/ DespawnEach
    \/ Goto

SpecTasks == TasksInit /\ [][TasksNext]_vars

\* ------------------------------------------------------------------
\* SpecNuke: nukeAllCubes alone, every step of it taken in the end
\* ------------------------------------------------------------------

NukeInit ==
    /\ PureIdle
    /\ ScanIdle
    /\ faults = 0
    /\ net = [dials |-> 0, sent |-> EmptyBag, open |-> {}]
    /\ fleet = [pc |-> "tasks", mutex |-> [m \in {"cube", "link", "position"} |-> 0]]
    /\ con = << StartTask("nuke", NukeProgram, 0, 0, << >>) >>
    /\ globalCubeList = << >>
    /\ globalCubeLinks = << >>
    /\ occupiedPositions = << >>

NukeNext ==
    \/ Dial
    \/ Write
    \/ Read
    \/ Attempt
    \/ Inventory
    \/ DespawnEach
    \/ Goto
    \/ ReturnTask

SpecNuke == NukeInit /\ [][NukeNext]_vars /\ WF_vars(NukeNext)


\* ------------------------------------------------------------------
\* engine.go: readResponse
\* ------------------------------------------------------------------

\* The constant delimiter of engine.go, byte by byte.
delimiter ==
    << "<", "?", "?", "?", "D", "O", "N", "E", "?", "?", "?", "-", "-", "-" >>

\* strings.IndexByte: the place of the first c in s, 0 for none.
IndexByte(s, c) ==
    IF \E k \in 1..Len(s) : s[k] = c
    THEN CHOOSE k \in 1..Len(s) : s[k] = c /\ \A j \in 1..(k - 1) : s[j] # c
    ELSE 0

\* reader.ReadString('-') on a stream of which rest is still to come before
\* the peer closes or the deadline passes: the bytes up to and including the
\* first '-', or, with none left, all that came and the error.
ReadString(rest, delim) ==
    LET k == IndexByte(rest, delim)
    IN  IF k > 0
        THEN [ line |-> SubSeq(rest, 1, k), err |-> FALSE,
               rest |-> SubSeq(rest, k + 1, Len(rest)) ]
        ELSE [ line |-> rest, err |-> TRUE, rest |-> << >> ]

\* strings.Contains.
StringsContains(s, substr) ==
    \E k \in 0..(Len(s) - Len(substr)) :
        SubSeq(s, k + 1, k + Len(substr)) = substr

\* strings.ReplaceAll for a non-empty old: the matches are taken from the
\* left and do not overlap.
RECURSIVE ReplaceAll(_, _, _)
ReplaceAll(s, old, new) ==
    IF Len(s) < Len(old) THEN s
    ELSE IF HasPrefix(s, old)
         THEN new \o ReplaceAll(SubSeq(s, Len(old) + 1, Len(s)), old, new)
         ELSE << s[1] >> \o ReplaceAll(Tail(s), old, new)

\* The white space of the streams: blank and newline.
IsSpace(c) == c \in {" ", "\n"}

\* strings.TrimSpace.
RECURSIVE TrimSpace(_)
TrimSpace(s) ==
    IF s = << >> THEN s
    ELSE IF IsSpace(s[1]) THEN TrimSpace(Tail(s))
    ELSE IF IsSpace(s[Len(s)]) THEN TrimSpace(SubSeq(s, 1, Len(s) - 1))
    ELSE s

\* What a peer sends in one piece, and how many pieces it sends before it
\* closes the connection or falls silent until the deadline.
MaxPieces == 3
StreamPieces == { << "a" >>, << "-" >>, << " " >>, << "\n" >>, delimiter }

\* The bytes of the pieces, one after the other.
RECURSIVE Stream(_)
Stream(pieces) ==
    IF pieces = << >> THEN << >> ELSE Head(pieces) \o Stream(Tail(pieces))

\* readResponse(conn) has made its reader, set the deadline and has an
\* empty builder; stream is what conn delivers before it ends.
ReadInit ==
    /\ FleetIdle
    /\ ScanIdle
    /\ \E pieces \in SeqUpTo(StreamPieces, MaxPieces), end \in {"EOF", "timeout"} :
          call = [ op |-> "readResponse", pc |-> "loop",
                   stream |-> Stream(pieces), end |-> end,
                   rest |-> Stream(pieces), builder |-> << >>,
                   exit |-> "none", reads |-> 0 ]
    /\ ret = << >>

\* One turn of the for loop: the error of ReadString breaks, its line
\* dropped; a line is written to the builder and breaks when it contains
\* the delimiter.
ReadLine ==
    /\ call.op = "readResponse"
    /\ call.pc = "loop"
    /\ LET r == ReadString(call.rest, "-")
       IN  call' = [call EXCEPT
                      !.rest = r.rest,
                      !.reads = @ + 1,
                      !.builder = IF r.err THEN @ ELSE @ \o r.line,
                      !.exit = IF r.err THEN call.end
                               ELSE IF StringsContains(r.line, delimiter)
                                    THEN "delimiter" ELSE @,
                      !.pc = IF r.err \/ StringsContains(r.line, delimiter)
                             THEN "return" ELSE @]
    /\ UNCHANGED <<ret, fleetVars, scanVars>>

\* After the loop: the delimiter is taken out of the builder's text and the
\* rest is trimmed.
ReadReturn ==
    /\ call.op = "readResponse"
    /\ call.pc = "return"
    /\ call' = [call EXCEPT !.pc = "done"]
    /\ ret' = TrimSpace(ReplaceAll(call.builder, delimiter, << >>))
    /\ UNCHANGED <<fleetVars, scanVars>>

ReadNext == ReadLine \/ ReadReturn

SpecRead == ReadInit /\ [][ReadNext]_vars /\ WF_vars(ReadNext)

\* ------------------------------------------------------------------
\* part_008: spawnConstructsAroundSphere and helper.go's appendUnitSafely
\* ------------------------------------------------------------------

\* The most goroutines one call of spawnConstructsAroundSphere starts.
MaxUnits == 3

\* spawnConstructsAroundSphere for `planets` centres with constructsPerPlanet
\* units each has started its goroutines (part_008 lines 43-71): goroutine
\* (planetIdx, i) has version planetIdx * constructsPerPlanet + i + 1 and is
\* about to evaluate the arguments of appendUnitSafely.  allUnits is nil and
\* allUnitsMutex free.
AroundInit ==
    /\ FleetIdle
    /\ ScanIdle
    /\ \E planets \in 1..MaxUnits, constructsPerPlanet \in 1..MaxUnits :
        /\ planets * constructsPerPlanet <= MaxUnits
        /\ call = [ op |-> "spawnConstructsAroundSphere", pc |-> "wait",
                    allUnits |-> << >>, allUnitsMutex |-> 0,
                    built |-> {}, despawned |-> << >>,
                    tasks |-> [ver \in 1..(planets * constructsPerPlanet) |->
                                 [ pc |-> "args",
                                   unitName |-> generateUnitID(Role, Domain,
                                                               StartGen, ver),
                                   slice |-> << >> ]] ]
    /\ ret = << >>

\* The caller's side of allUnits = appendUnitSafely(allUnits, unitName)
\* (line 58): the slice is read for the argument, outside any lock.
UnitArgs(g) ==
    /\ call.op = "spawnConstructsAroundSphere"
    /\ call.tasks[g].pc = "args"
    /\ call' = [call EXCEPT !.tasks[g].slice = call.allUnits,
                            !.tasks[g].pc = "lock"]
    /\ UNCHANGED <<ret, fleetVars, scanVars>>

\* allUnitsMutex.Lock() of appendUnitSafely (helper.go line 27).
UnitLock(g) ==
    /\ call.op = "spawnConstructsAroundSphere"
    /\ call.tasks[g].pc = "lock"
    /\ call.allUnitsMutex = 0
    /\ call' = [call EXCEPT !.allUnitsMutex = g, !.tasks[g].pc = "append"]
    /\ UNCHANGED <<ret, fleetVars, scanVars>>

\* return append(slice, unitName) and the deferred Unlock (lines 28-29):
\* the name is appended to the slice the goroutine was called with.
UnitAppend(g) ==
    /\ call.op = "spawnConstructsAroundSphere"
    /\ call.tasks[g].pc = "append"
    /\ call' = [call EXCEPT
                  !.tasks[g].slice = Append(@, call.tasks[g].unitName),
                  !.allUnitsMutex = 0,
                  !.tasks[g].pc = "assign"]
    /\ UNCHANGED <<ret, fleetVars, scanVars>>

\* The assignment of the result to allUnits, after the lock was released.
UnitAssign(g) ==
    /\ call.op = "spawnConstructsAroundSphere"
    /\ call.tasks[g].pc = "assign"
    /\ call' = [call EXCEPT !.allUnits = call.tasks[g].slice,
                            !.tasks[g].pc = "build"]
    /\ UNCHANGED <<ret, fleetVars, scanVars>>

\* buildDynamicConstruct and targetedUnfreezeAllCubes for the unit (lines
\* 63-65), and the deferred wg.Done().
UnitBuild(g) ==
    /\ call.op = "spawnConstructsAroundSphere"
    /\ call.tasks[g].pc = "build"
    /\ call' = [call EXCEPT !.built = @ \cup {call.tasks[g].unitName},
                            !.tasks[g].pc = "done"]
    /\ UNCHANGED <<ret, fleetVars, scanVars>>

\* wg.Wait() (line 70) and the range over allUnits: the slice is
\* evaluated once, when every goroutine is over.
UnitsJoin ==
    /\ call.op = "spawnConstructsAroundSphere"
    /\ call.pc = "wait"
    /\ \A g \in DOMAIN call.tasks : call.tasks[g].pc = "done"
    /\ call' = [call EXCEPT !.pc = "despawn"]
    /\ UNCHANGED <<ret, fleetVars, scanVars>>

\* One round of the teardown loop (lines 77-80): targetedDespawnAllCubes
\* for the next unit of allUnits.
UnitsDespawn ==
    /\ call.op = "spawnConstructsAroundSphere"
    /\ call.pc = "despawn"
    /\ Len(call.despawned) < Len(call.allUnits)
    /\ call' = [call EXCEPT
                  !.despawned = Append(@, call.allUnits[Len(call.despawned) + 1])]
    /\ UNCHANGED <<ret, fleetVars, scanVars>>

\* The loop is over and the function returns.
UnitsReturn ==
    /\ call.op = "spawnConstructsAroundSphere"
    /\ call.pc = "despawn"
    /\ Len(call.despawned) = Len(call.allUnits)
    /\ call' = [call EXCEPT !.pc = "done"]
    /\ UNCHANGED <<ret, fleetVars, scanVars>>

ReadUnits == \E g \in DOMAIN call.tasks : UnitArgs(g)
LockUnits == \E g \in DOMAIN call.tasks : UnitLock(g)
AppendUnit == \E g \in DOMAIN call.tasks : UnitAppend(g)
AssignUnits == \E g \in DOMAIN call.tasks : UnitAssign(g)
BuildUnit == \E g \in DOMAIN call.tasks : UnitBuild(g)

AroundNext ==
    \/ ReadUnits
    \/ LockUnits
    \/ AppendUnit
    \/ AssignUnits
    \/ BuildUnit
    \/ UnitsJoin
    \/ UnitsDespawn
    \/ UnitsReturn

SpecAround == AroundInit /\ [][AroundNext]_vars

\* ------------------------------------------------------------------
\* SpecIds: the unit ids of a fleet
\* ------------------------------------------------------------------

\* The loop of SpawnMultipleConstructs that names the units (part_000
\* lines 361-362): unitNames[i] for i = 0..numConstructs-1, i being k - 1.
UnitNames(role, domain, startGen, startVersion, numConstructs) ==
    [k \in 1..numConstructs |->
        generateUnitID(role, domain, startGen + ((k - 1) \div 100),
                                     startVersion + ((k - 1) % 100))]

\* The largest fleet that is named: past 100, where the generation goes up.
MaxFleetSize == 102

IdRoles == {Role, << "x" >>}
IdDomains == {Domain, << "o", "p", ".", ".", "f" >>}
IdGens == {-1, 0, 1, 11}
IdVersions == {-1, 0, 1, 11, 99}
IdFleetSizes == {0, 1, 2, 100, 101, MaxFleetSize}

\* A fleet is about to be named, and one more id asked for.
IdsInit ==
    /\ FleetIdle
    /\ ScanIdle
    /\ \E role \in IdRoles, domain \in IdDomains, startGen \in IdGens,
          startVersion \in IdVersions, numConstructs \in IdFleetSizes,
          gen \in IdGens, version \in IdVersions :
          call = [ op |-> "none", role |-> role, domain |-> domain,
                   startGen |-> startGen, startVersion |-> startVersion,
                   numConstructs |-> numConstructs,
                   gen |-> gen, version |-> version ]
    /\ ret = << >>

\* The ids of the fleet's units, and generateUnitID(role, domain, gen,
\* version) called twice.
CallGenerateUnitID ==
    /\ call.op = "none"
    /\ call' = [call EXCEPT !.op = "generateUnitID"]
    /\ ret' = [ unitNames |-> UnitNames(call.role, call.domain, call.startGen,
                                        call.startVersion, call.numConstructs),
                id    |-> generateUnitID(call.role, call.domain, call.gen, call.version),
                again |-> generateUnitID(call.role, call.domain, call.gen, call.version) ]
    /\ UNCHANGED <<fleetVars, scanVars>>

SpecIds == IdsInit /\ [][CallGenerateUnitID]_vars

\* ------------------------------------------------------------------
\* SpecSweep: targetedUnfreezeAllCubes and targetedDespawnAllCubes on a
\* registry that holds the cubes of several units
\* ------------------------------------------------------------------

\* The most entries of globalCubeList.
MaxEntries == 3

\* Unit ids one of which is the head of another but for the "_": version
\* 1 and version 10, and generation 11.
SweepUnits ==
    { generateUnitID(Role, Domain, 1, 1), generateUnitID(Role, Domain, 1, 10),
      generateUnitID(Role, Domain, 11, 1) }

\* The entries their cubes have in globalCubeList.
SweepNames ==
    { Prefixed(u, << "a" >>) \o BaseSuffix : u \in SweepUnits }
        \cup { Prefixed(generateUnitID(Role, Domain, 1, 1), << "b" >>) \o BaseSuffix }

\* globalCubeList holds some of these names, some more than once; nothing
\* was dialled.
SweepInit ==
    /\ call = [op |-> "none"]
    /\ ret = << >>
    /\ ScanIdle
    /\ fleet = [pc |-> "idle"]
    /\ con = << >>
    /\ globalCubeLinks = << >>
    /\ occupiedPositions = << >>
    /\ net = [dials |-> 0, sent |-> EmptyBag]
    /\ faults = 0
    /\ globalCubeList \in SeqUpTo(SweepNames, MaxEntries)

\* One call of a sweep for unitName: its goroutines, of which those of
\* the entries in f fail to connect or to write the password.
CallSweep(command) ==
    /\ call.op = "none"
    /\ \E unitName \in SweepUnits : \E f \in SweepFailures(unitName) :
        /\ net' = Sweep(unitName, command, f.noDial, f.noAuth)
        /\ faults' = faults + Cardinality(f.noDial) + Cardinality(f.noAuth)
        /\ call' = [ op |-> command, unitName |-> unitName,
                     failed |-> f.noDial \cup f.noAuth ]
    /\ UNCHANGED <<ret, fleet, con, globalCubeList, globalCubeLinks,
                   occupiedPositions, scanVars>>

\* targetedUnfreezeAllCubes(unitName) and targetedDespawnAllCubes(unitName).
CallUnfreeze == CallSweep("freeze_cube")
CallDespawn == CallSweep("despawn_cube")

SweepNext == CallUnfreeze \/ CallDespawn

SpecSweep == SweepInit /\ [][SweepNext]_vars

\* ------------------------------------------------------------------
\* SpecPool: SparseScanner.GetCubesAndConnectionsParallel
\* ------------------------------------------------------------------

\* const maxWorkers of GetCubesAndConnectionsParallel.
maxWorkers == 10

\* The most cubes of CubesMap that match the prefix.
MaxPoolCubes == 3

\* The capacities of sem that are run: that of the source, and pools
\* smaller than the number of cubes, so that the loop has to wait for a slot.
PoolSizes == {1, 2, maxWorkers}

\* The keys of CubesMap and the prefixes asked for.
PoolKeys ==
    { << "u", "1" >>, << "u", "1", "0" >>, << "u", "2" >>, << "u", "B" >>,
      << "v", "1" >> }
PoolPrefixes == { << "u" >>, << "w" >> }

\* The one joint the registry knows, and globalCubeLinks with it.
PoolJoint == JointName(<< "h" >>, << "u", "1" >>, << "u", "2" >>)
PoolLinks ==
    << [JointName |-> PoolJoint, CubeA |-> << "u", "1" >>, CubeB |-> << "u", "2" >>] >>

\* The bytes of the keys in their order.
ByteOrder == << "0", "1", "2", "B", "u", "v" >>
ByteRank(c) == CHOOSE k \in 1..Len(ByteOrder) : ByteOrder[k] = c

\* Go's < on strings: byte by byte, the shorter first when it is the head
\* of the longer.
RECURSIVE StringLess(_, _)
StringLess(a, b) ==
    IF b = << >> THEN FALSE
    ELSE IF a = << >> THEN TRUE
    ELSE IF Head(a) = Head(b) THEN StringLess(Tail(a), Tail(b))
    ELSE ByteRank(Head(a)) < ByteRank(Head(b))

\* The list with conn put in before the first element that is not less.
RECURSIVE Inserted(_, _)
Inserted(list, conn) ==
    IF list = << >> THEN << conn >>
    ELSE IF StringLess(list[1].CubeName, conn.CubeName)
         THEN << list[1] >> \o Inserted(Tail(list), conn)
         ELSE << conn >> \o list

\* sort.Slice(result, by CubeName) (lines 457-459).
RECURSIVE SortSlice(_)
SortSlice(result) ==
    IF result = << >> THEN << >>
    ELSE Inserted(SortSlice(Tail(result)), Head(result))

\* The loop acquiring no slot.
SlotFreeAlways(sem, workers) == TRUE

\* sem <- struct{}{} can go on: the channel is not full.
SlotFree(sem, workers) == sem < workers

\* The inner loops of lines 410-426: the joint's record in globalCubeLinks
\* names the cube at the other end, if the cube is at one end of it.
ConnectedCube(jointName, cubeName) ==
    LET found == {k \in 1..Len(globalCubeLinks) :
                     globalCubeLinks[k].JointName = jointName}
        first == CHOOSE k \in found : \A j \in found : k <= j
    IN  IF found = {} THEN << >>
        ELSE IF globalCubeLinks[first].CubeA = cubeName
             THEN globalCubeLinks[first].CubeB
        ELSE IF globalCubeLinks[first].CubeB = cubeName
             THEN globalCubeLinks[first].CubeA
        ELSE << >>

\* A scanner whose CubesMap has the keys of `keys`, one of them a cube of
\* another unit, is asked for the cubes with a prefix; sem has `workers`
\* slots.
PoolInit ==
    /\ ScanIdle
    /\ fleet = [pc |-> "idle"]
    /\ con = << >>
    /\ globalCubeList = << >>
    /\ globalCubeLinks = PoolLinks
    /\ occupiedPositions = << >>
    /\ net = [dials |-> 0, sent |-> EmptyBag]
    /\ faults = 0
    /\ \E keys \in SUBSET PoolKeys, prefix \in PoolPrefixes, workers \in PoolSizes :
        /\ << "v", "1" >> \in keys
        /\ Cardinality({key \in keys : HasPrefix(key, prefix)}) <= MaxPoolCubes
        /\ call = [ op |-> "GetCubesAndConnectionsParallel", pc |-> "start",
                    CubesMap |-> keys, prefix |-> prefix, workers |-> workers,
                    cubes |-> << >>, started |-> 0, sem |-> 0, wg |-> 0,
                    tasks |-> << >>, resultsChan |-> << >>, closed |-> FALSE,
                    waiter |-> "none", result |-> << >>, peak |-> 0 ]
    /\ ret = << >>

notPoolVars == <<fleetVars, scanVars>>

\* Steps 1 and 2 (lines 384-394): GetCubesByPrefix ranges over the map in
\* an order of Go's choosing; with no cube the call returns an error.
PoolBegin ==
    /\ call.op = "GetCubesAndConnectionsParallel"
    /\ call.pc = "start"
    /\ LET matching == {key \in call.CubesMap : HasPrefix(key, call.prefix)}
       IN  IF matching = {}
           THEN /\ call' = [call EXCEPT !.pc = "done"]
                /\ ret' = [result |-> << >>, err |-> "no cubes found"]
           ELSE /\ \E cubes \in [1..Cardinality(matching) -> matching] :
                    /\ \A j, k \in DOMAIN cubes : cubes[j] = cubes[k] => j = k
                    /\ call' = [call EXCEPT
                                  !.pc = "loop", !.cubes = cubes,
                                  !.tasks = [k \in DOMAIN cubes |->
                                               [pc |-> "idle", joints |-> << >>]]]
                /\ ret' = ret
    /\ UNCHANGED notPoolVars

\* One round of the loop of step 3 (lines 397-400): wg.Add(1), a slot of
\* sem taken, the goroutine of the next cube started.
PoolGo ==
    /\ call.op = "GetCubesAndConnectionsParallel"
    /\ call.pc = "loop"
    /\ call.started < Len(call.cubes)
    /\ SlotFree(call.sem, call.workers)
    /\ call' = [call EXCEPT
                  !.wg = @ + 1, !.sem = @ + 1, !.started = @ + 1,
                  !.tasks[call.started + 1].pc = "joints",
                  !.peak = IF call.sem + 1 > @ THEN call.sem + 1 ELSE @]
    /\ UNCHANGED <<ret, notPoolVars>>

\* Step 4 (lines 440-443): the loop is over and the goroutine that waits
\* for the others and closes resultsChan is started.
PoolGoWaiter ==
    /\ call.op = "GetCubesAndConnectionsParallel"
    /\ call.pc = "loop"
    /\ call.started = Len(call.cubes)
    /\ call' = [call EXCEPT !.pc = "collect", !.waiter = "wait"]
    /\ UNCHANGED <<ret, notPoolVars>>

\* getJointsForCube(cubeName) in goroutine k (line 405): the server names
\* the joint of the two cubes it has linked and none for another cube.
PoolJoints(k) ==
    /\ call.op = "GetCubesAndConnectionsParallel"
    /\ call.tasks[k].pc = "joints"
    /\ call' = [call EXCEPT
                  !.tasks[k].joints =
                      IF call.cubes[k] \in {PoolLinks[1].CubeA, PoolLinks[1].CubeB}
                      THEN << PoolJoint >> ELSE << >>,
                  !.tasks[k].pc = "send"]
    /\ UNCHANGED <<ret, notPoolVars>>

\* The JointInfo of every joint of goroutine k (lines 408-431, under
\* linkListMutex, with nothing that blocks before it is released).
JointInfos(k) ==
    [j \in 1..Len(call.tasks[k].joints) |->
        [ JointName |-> call.tasks[k].joints[j],
          ConnectedCube |-> ConnectedCube(call.tasks[k].joints[j], call.cubes[k]) ]]

\* The rest of goroutine k (lines 408-437) and its deferred calls: the
\* joint infos are made, the result is sent on resultsChan, whose buffer
\* holds len(cubes), the slot of sem is given back and wg.Done() called.
PoolSend(k) ==
    /\ call.op = "GetCubesAndConnectionsParallel"
    /\ call.tasks[k].pc = "send"
    /\ Len(call.resultsChan) < Len(call.cubes)
    /\ call' = [call EXCEPT
                  !.resultsChan = Append(@, [ CubeName |-> call.cubes[k],
                                              Joints |-> JointInfos(k) ]),
                  !.sem = @ - 1, !.wg = @ - 1,
                  !.tasks[k].pc = "done"]
    /\ UNCHANGED <<ret, notPoolVars>>

\* wg.Wait() and close(resultsChan) of the waiting goroutine.
PoolClose ==
    /\ call.op = "GetCubesAndConnectionsParallel"
    /\ call.waiter = "wait"
    /\ call.wg = 0
    /\ call' = [call EXCEPT !.closed = TRUE, !.waiter = "done"]
    /\ UNCHANGED <<ret, notPoolVars>>

\* One round of the loop of step 5 (lines 447-449): a result is received.
PoolReceive ==
    /\ call.op = "GetCubesAndConnectionsParallel"
    /\ call.pc = "collect"
    /\ call.resultsChan # << >>
    /\ call' = [call EXCEPT !.result = Append(@, Head(call.resultsChan)),
                            !.resultsChan = Tail(@)]
    /\ UNCHANGED <<ret, notPoolVars>>

\* resultsChan is closed and empty: the loop ends; the results are sorted
\* and returned (lines 451-461).
PoolReturn ==
    /\ call.op = "GetCubesAndConnectionsParallel"
    /\ call.pc = "collect"
    /\ call.resultsChan = << >>
    /\ call.closed
    /\ call' = [call EXCEPT !.pc = "done"]
    /\ ret' = IF Len(call.result) = 0
              THEN [result |-> << >>, err |-> "no connections found"]
              ELSE [result |-> SortSlice(call.result), err |-> "nil"]
    /\ UNCHANGED notPoolVars

GetJoints == \E k \in DOMAIN call.tasks : PoolJoints(k)
SendResult == \E k \in DOMAIN call.tasks : PoolSend(k)

PoolNext ==
    \/ PoolBegin
    \/ PoolGo
    \/ PoolGoWaiter
    \/ GetJoints
    \/ SendResult
    \/ PoolClose
    \/ PoolReceive
    \/ PoolReturn

\* Every goroutine that can take a step is run in the end.
SpecPool == PoolInit /\ [][PoolNext]_vars /\ WF_vars(PoolNext)

\* ------------------------------------------------------------------
\* SpecLink: linkCubeChainsWithConfig called again on the same chains
\* ------------------------------------------------------------------

\* The most calls of linkCubeChainsWithConfig on the construct.
MaxLinkCalls == 2

\* The records are appended whether or not the command went out.
LinkSentOrNot(outcome) == TRUE

\* linkCubeChainsWithConfig gets past its four returns with an error
\* (part_000 lines 120-149): the link command was sent.
LinkSent(outcome) == outcome = "ok"

LinkTemplates == {TemplateOne, TemplateBar, TemplatePair, TemplateTri}
LinkJointTypes == { << "h" >>, << "f", "x" >> }

\* A construct has loaded a template; its suffixed chains are about to be
\* linked.  Nothing is in globalCubeLinks.
LinkInit ==
    /\ ScanIdle
    /\ fleet = [pc |-> "idle"]
    /\ con = << >>
    /\ globalCubeList = << >>
    /\ globalCubeLinks = << >>
    /\ occupiedPositions = << >>
    /\ net = [dials |-> 0, sent |-> EmptyBag]
    /\ faults = 0
    /\ \E template \in LinkTemplates, jointType \in LinkJointTypes,
          version \in {StartVersion, 10} :
        LET Config == LoadConfigFromJSON(template,
                          generateUnitID(Role, Domain, StartGen, version))
        IN  call = [ op |-> "linkCubeChainsWithConfig",
                     chains |-> AdjustedChains(Config.Chains),
                     jointType |-> jointType,
                     jointParams |-> Config.JointParams ]
    /\ ret = << >>

\* c.linkCubeChainsWithConfig(chains, jointType, jointParams): dial, write
\* the password, read, send link_cube_chains, read, and then the records;
\* a failed dial, password write or send returns the error.  What was
\* returned is kept with globalCubeLinks before and after the call.
CallLinkCubeChains ==
    /\ call.op = "linkCubeChainsWithConfig"
    /\ Len(ret) < MaxLinkCalls
    /\ \E outcome \in OkOr({"dial", "auth", "send"}) :
        /\ faults' = IF outcome = "ok" THEN faults ELSE faults + 1
        /\ net' = CASE outcome = "dial" -> net
                    [] outcome \in {"auth", "send"} -> Wrote(net, 1, {})
                    [] outcome = "ok" ->
                         Wrote(net, 1,
                               {[ type |-> "link_cube_chains",
                                  addr |-> FleetServerAddr,
                                  chains |-> call.chains,
                                  joint_type |-> call.jointType,
                                  joint_params |-> call.jointParams ]})
        /\ globalCubeLinks' =
              IF LinkSent(outcome)
              THEN globalCubeLinks \o LinkRecords(call.chains, call.jointType)
              ELSE globalCubeLinks
        /\ ret' = Append(ret, [ err |-> outcome # "ok",
                                before |-> globalCubeLinks,
                                after |-> globalCubeLinks' ])
    /\ UNCHANGED <<call, fleet, con, globalCubeList, occupiedPositions, scanVars>>

SpecLink == LinkInit /\ [][CallLinkCubeChains]_vars

\* ------------------------------------------------------------------
\* properties
\* ------------------------------------------------------------------

\* The tolerance for a quantity of magnitude r: two grid steps and 1 %.
Tolerance(r) == (r \div 100) + 2

\* The placement arithmetic of SpawnMultipleConstructs has run.
Placed == fleet.pc \notin {"idle", "start"} /\ fleet.result # "load_error"

\* SpawnMultipleConstructs went on to start its goroutines.
Proceeded == fleet.pc \in {"spawning", "despawn"} \/ fleet.result = "ok"

\* C1: whenever fewer than numConstructs positions survive the filter, the
\* call has returned the capacity error, and no connection was opened, no
\* command sent, no goroutine started and nothing added to globalCubeList
\* or globalCubeLinks.
C1_CapacityAbort ==
    (Placed /\ Len(fleet.availablePositions) < fleet.numConstructs) =>
        /\ fleet.pc = "done"
        /\ fleet.result = "capacity_error"
        /\ con = << >>
        /\ net.dials = 0
        /\ net.sent = EmptyBag
        /\ globalCubeList = << >>
        /\ globalCubeLinks = << >>

\* Two constructs were asked for and one position survived.
C1_Witness ==
    /\ fleet.result = "capacity_error"
    /\ fleet.numConstructs = 2
    /\ Len(fleet.availablePositions) = 1

\* a is b with some elements left out: f picks where each a[k] stands in b.
IsSubsequence(a, b) ==
    \E f \in [1..Len(a) -> 1..Len(b)] :
        /\ \A k \in 1..Len(a) : a[k] = b[f[k]]
        /\ \A k \in 1..(Len(a) - 1) : f[k] < f[k + 1]

\* No two entries of the list are closer than minDistance.
Spread(list, minDistance) ==
    \A j, k \in 1..Len(list) :
        j # k => ~FLt(Dist(list[j], list[k]), minDistance)

\* C2: the accepted list holds no two points closer than minDistance, is a
\* subsequence of the candidates in their order, and is the candidate list
\* itself when no two candidates are closer than minDistance.
C2_FirstFit ==
    call.op = "filter" =>
        /\ Spread(ret, call.minDistance)
        /\ IsSubsequence(ret, call.positions)
        /\ (Spread(call.positions, call.minDistance) => ret = call.positions)

\* The filter dropped a candidate and kept more than one.
C2_Witness ==
    /\ call.op = "filter"
    /\ Len(ret) >= 2
    /\ Len(ret) < Len(call.positions)

\* C3: when SpawnMultipleConstructs goes on to spawn two or more
\* constructs, no two of them are handed the same placement.
C3_DisjointPlacements ==
    (Proceeded /\ fleet.numConstructs >= 2) =>
        \A j, k \in 1..fleet.numConstructs :
            j # k => fleet.availablePositions[j] # fleet.availablePositions[k]

\* The distance of the farthest cube from the centroid (0 without cubes).
BoundingRadius(cubes) ==
    IF cubes = << >> THEN 0
    ELSE LET ds == {Dist(cubes[k].Position, Centroid(cubes)) : k \in 1..Len(cubes)}
         IN  CHOOSE d \in ds : \A e \in ds : e <= d

\* ||offset||.
Magnitude(v) == FSqrt(FMul(v[1], v[1]) + FMul(v[2], v[2]) + FMul(v[3], v[3]))

Larger(a, b) == IF a >= b THEN a ELSE b

\* C4 as claimed: orbit radius = max(||offset||, 2R) + R and minimum
\* separation = 4R, for every template and offset.
C4_OrbitRadiusIsMax ==
    Placed =>
        LET R == BoundingRadius(fleet.template.Cubes)
        IN  /\ fleet.radius = Larger(Magnitude(fleet.offset), 2 * R) + R
            /\ fleet.minDistance = 4 * R

\* C4, amended: orbit radius = ||offset|| + R when the offset is not zero
\* and 3R when it is; minimum separation = 4R; R = 5 with a zero offset
\* gives 15 and 20.
C4_OrbitRadius ==
    Placed =>
        LET R   == BoundingRadius(fleet.template.Cubes)
            mag == Magnitude(fleet.offset)
        IN  /\ fleet.maxDistance = R
            /\ fleet.radius = (IF mag = 0 THEN 3 * R ELSE mag + R)
            /\ fleet.minDistance = 4 * R
            /\ (R = F(5) /\ mag = 0) =>
                  (fleet.radius = F(15) /\ fleet.minDistance = F(20))

\* A template of bounding radius 5 placed with an offset of magnitude 3.
C4_Witness ==
    /\ Placed
    /\ fleet.maxDistance = F(5)
    /\ fleet.offset = Pt(3, 0, 0)
    /\ fleet.radius = F(8)

\* C5: fibonacciSphere hands SpawnMultipleConstructs exactly numConstructs
\* positions, none for 0, and the count check never fails the call.
C5_ExactCount ==
    Placed =>
        /\ Len(fleet.positions) = fleet.numConstructs
        /\ fleet.result # "count_error"
        /\ (fleet.numConstructs = 0 => fleet.positions = << >>)

\* A call for no construct went past the count check.
C5_Witness ==
    /\ fleet.pc = "spawning"
    /\ fleet.numConstructs = 0
    /\ fleet.positions = << >>

\* C6: every definition of fibonacciSphere returns, for n = 1, the one
\* point (c.x + r, c.y, c.z).
C6_SinglePointEveryDefinition ==
    (call.op \in {"fibonacciSphere", "fibonacciSphereLoopOnly"} /\ call.n = 1) =>
        ret = << << call.center[1] + call.radius, call.center[2],
                    call.center[3] >> >>

\* C7: for n >= 2 every point of fibonacciSphere(n, r, c) is at distance r
\* from c within the tolerance, the first is the pole c + (0, r, 0) and the
\* last the pole c + (0, -r, 0).
C7_OnSphere ==
    (call.op = "fibonacciSphere" /\ call.n >= 2) =>
        /\ Len(ret) = call.n
        /\ \A k \in 1..Len(ret) :
              Near(Dist(ret[k], call.center), call.radius, Tolerance(call.radius))
        /\ ret[1] = << call.center[1], call.center[2] + call.radius,
                       call.center[3] >>
        /\ ret[call.n] = << call.center[1], call.center[2] - call.radius,
                            call.center[3] >>

\* Four or more points on a sphere of radius 15, off the poles too.
C7_Witness ==
    /\ call.op = "fibonacciSphere"
    /\ call.n >= 4
    /\ call.radius = F(15)
    /\ ret[2][2] # ret[1][2]
    /\ ret[2][1] # ret[1][1]

\* The part names and the chain member names of a loaded Config.
PartNames(config) == {config.Cubes[k].Name : k \in 1..Len(config.Cubes)}
ChainNames(config) ==
    UNION {{config.Chains[k][j] : j \in 1..Len(config.Chains[k])} :
              k \in 1..Len(config.Chains)}

\* config is file with unitName + "_" put before every part name and chain
\* member, and every position as in the file.
Renamed(file, unitName, config) ==
    /\ Len(config.Cubes) = Len(file.Cubes)
    /\ \A k \in 1..Len(file.Cubes) :
          /\ config.Cubes[k].Name = unitName \o << "_" >> \o file.Cubes[k].Name
          /\ config.Cubes[k].Position = file.Cubes[k].Position
    /\ Len(config.Chains) = Len(file.Chains)
    /\ \A k \in 1..Len(file.Chains) :
          /\ Len(config.Chains[k]) = Len(file.Chains[k])
          /\ \A j \in 1..Len(file.Chains[k]) :
                config.Chains[k][j] = unitName \o << "_" >> \o file.Chains[k][j]

Disjoint(configA, configB) ==
    /\ PartNames(configA) \cap PartNames(configB) = {}
    /\ ChainNames(configA) \cap ChainNames(configB) = {}

\* C8 as claimed: two different unit names give disjoint part-name sets and
\* disjoint chain-name sets.
C8_DisjointForAnyUnitNames ==
    call.op = "load" =>
        /\ Renamed(call.file, call.unitA, ret[1])
        /\ Renamed(call.file, call.unitB, ret[2])
        /\ Disjoint(ret[1], ret[2])

\* Neither unit name, followed by "_", starts the other.
Unrelated(unitA, unitB) ==
    /\ ~HasPrefix(unitB, unitA \o << "_" >>)
    /\ ~HasPrefix(unitA, unitB \o << "_" >>)

\* C8, amended: every name is rewritten to unitName + "_" + original and
\* every position kept; the two name sets are disjoint when neither unit
\* name followed by "_" is a prefix of the other.
C8_DisjointForUnrelatedUnitNames ==
    call.op = "load" =>
        /\ Renamed(call.file, call.unitA, ret[1])
        /\ Renamed(call.file, call.unitB, ret[2])
        /\ Unrelated(call.unitA, call.unitB) => Disjoint(ret[1], ret[2])

\* A file with "_" in a part name loaded under two generated unit names.
C8_Witness ==
    /\ call.op = "load"
    /\ call.file = TemplateUnderscore
    /\ call.unitA = generateUnitID(Role, Domain, StartGen, StartVersion)
    /\ call.unitB = generateUnitID(Role, Domain, StartGen, StartVersion + 10)
    /\ PartNames(ret[1]) # {}

\* The cubes handed to the spawn tasks of construct i.
Handed(i) == [p \in DOMAIN con[i].parts |-> con[i].parts[p].cube]

\* C9: the centroid of the positions handed to the spawn tasks of a
\* construct is its placement, and the difference of any two parts'
\* positions is that of the template.
C9_CentroidOnPlacement ==
    \A i \in DOMAIN con :
        con[i].parts # << >> =>
            LET cubes == Handed(i)
                file  == fleet.template.Cubes
            IN  /\ Len(cubes) = Len(file)
                /\ \A c \in 1..3 :
                      Near(Centroid(cubes)[c], fleet.availablePositions[i][c],
                           Tolerance(0))
                /\ \A p, q \in 1..Len(cubes) : \A c \in 1..3 :
                      Near(cubes[p].Position[c] - cubes[q].Position[c],
                           file[p].Position[c] - file[q].Position[c],
                           Tolerance(0))

\* A construct of three parts, whose centroid is off the grid, was
\* translated to a placement off the planet's centre.
C9_Witness ==
    \E i \in DOMAIN con :
        /\ con[i].pc = "parts"
        /\ Len(con[i].parts) = 3
        /\ fleet.availablePositions[i] # fleet.planetCenter

\* The number of pairs of a chain of length k: max(k - 1, 0).
Pairs(chain) == IF Len(chain) >= 1 THEN Len(chain) - 1 ELSE 0

RECURSIVE PairsBefore(_, _)
\* The pairs of the chains before chain c.
PairsBefore(chains, c) ==
    IF c <= 1 THEN 0 ELSE PairsBefore(chains, c - 1) + Pairs(chains[c - 1])

\* after is before plus, for each chain (every member carrying "_BASE") of
\* lengh k, max(k - 1, 0) records: one per consecutive pair, in chain
\* order, named joint_<jointType>_<A>_<B>.
Linked(config, before, after) ==
    LET chains == config.Chains
        base(c, j) == chains[c][j] \o << "_", "B", "A", "S", "E" >>
    IN  /\ Len(after) = Len(before) + PairsBefore(chains, Len(chains) + 1)
        /\ SubSeq(after, 1, Len(before)) = before
        /\ \A c \in 1..Len(chains) : \A j \in 1..Pairs(chains[c]) :
              after[Len(before) + PairsBefore(chains, c) + j] =
                 [ JointName |-> << "j", "o", "i", "n", "t", "_" >>
                                   \o config.JointType \o << "_" >> \o base(c, j)
                                   \o << "_" >> \o base(c, j + 1),
                   CubeA |-> base(c, j),
                   CubeB |-> base(c, j + 1) ]

\* C10: a successful link appends to globalCubeLinks exactly max(k-1, 0)
\* records for each chain of length k, one per consecutive pair in chain
\* order, each named joint_<jointType>_<A>_<B>.
C10_LinkRecords ==
    [][\A i \in DOMAIN con :
          (con[i].pc = "parts" /\ con'[i].pc = "unfreeze") =>
              Linked(con[i].Config, globalCubeLinks, globalCubeLinks')]_vars

\* A construct whose chains have 3, 0 and 1 members was linked: two records.
C10_Witness ==
    \E i \in DOMAIN con :
        /\ con[i].pc = "unfreeze"
        /\ fleet.template = TemplatePair
        /\ Len(globalCubeLinks) = 2
        /\ globalCubeLinks[2].CubeB = globalCubeLinks[1].CubeA

\* The value of a digit character.
DigitValue(c) == CHOOSE d \in 0..9 : Digits[d + 1] = c

IsDigits(s) == s # << >> /\ \A k \in 1..Len(s) : \E d \in 0..9 : Digits[d + 1] = s[k]

RECURSIVE ReadNat(_)
\* The number a string of digits denotes.
ReadNat(s) ==
    IF s = << >> THEN 0
    ELSE (ReadNat(SubSeq(s, 1, Len(s) - 1)) * 10) + DigitValue(s[Len(s)])

\* s is a decimal numeral [-]digits[.digits] of at most three decimals
\* and denotes the value a.
Denotes(s, a) ==
    LET neg  == s # << >> /\ s[1] = "-"
        body == IF neg THEN Tail(s) ELSE s
        dots == {k \in 1..Len(body) : body[k] = "."}
        dot  == IF dots = {} THEN Len(body) + 1 ELSE CHOOSE k \in dots : TRUE
        int  == SubSeq(body, 1, dot - 1)
        frac == SubSeq(body, dot + 1, Len(body))
        pad  == frac \o [k \in 1..(3 - Len(frac)) |-> "0"]
    IN  /\ Cardinality(dots) <= 1
        /\ IsDigits(int)
        /\ dots # {} => (IsDigits(frac) /\ Len(frac) <= 3)
        /\ a = (IF neg THEN 0 - 1 ELSE 1) * ((ReadNat(int) * Scale) + ReadNat(pad))

\* The rows of the table are those of the parts of the construct.
RowsOfParts ==
    call.op = "GetCubesTable" =>
        LET cubes == call.Config.Cubes
        IN  /\ Len(ret) = Len(cubes)
            /\ \A i \in 1..Len(cubes) :
                  /\ Len(ret[i]) = 7
                  /\ ret[i][1] = cubes[i].Name
                  /\ \A c \in 1..3 : Denotes(ret[i][c + 1], cubes[i].Position[c])
                  /\ \A c \in 5..7 : ret[i][c] = << "0" >>

\* C11: GetCubesTable on a loaded template of k parts returns k rows in
\* part order, row i being the part's name, numerals denoting its own x, y
\* and z, and "0", "0", "0"; the call changes neither the construct nor a
\* registry.
C11_CubesTable ==
    /\ []RowsOfParts
    /\ [][call'.op = "GetCubesTable" =>
             (call'.Config = call.Config /\ UNCHANGED fleetVars)]_vars

\* The table of two parts with fractional and negative coordinates.
C11_Witness ==
    /\ call.op = "GetCubesTable"
    /\ Len(ret) = 2
    /\ ret[1][2] = << "3", ".", "6" >>
    /\ ret[1][3] = << "-", "0", ".", "2", "5" >>
    /\ ret[2][2] = << "-", "7", ".", "0", "1" >>

\* The result of some probe so far that ended successfully reported key
\* as a cube and came from host.
CubeReported(key, host) ==
    \E run \in scan.probed :
        /\ run.result.Success
        /\ run.result.Host = host
        /\ \E j \in 1..Len(run.result.Cubes) : run.result.Cubes[j] = key

PlanetReported(key, host, port) ==
    \E run \in scan.probed :
        /\ run.result.Success
        /\ run.result.Host = host
        /\ run.result.Port = port
        /\ \E j \in 1..Len(run.result.Planets) : run.result.Planets[j].Name = key

\* C12: every key of CubesMap and of PlanetsMap, with the endpoint it is
\* bound to, was reported by a probe that ended with Success = true; a
\* probe that ended failed carries a non-empty Error and no cube or planet.
C12_MapsHoldSuccessesOnly ==
    /\ \A key \in DOMAIN scanner.CubesMap :
          CubeReported(key, scanner.CubesMap[key])
    /\ \A key \in DOMAIN scanner.PlanetsMap :
          PlanetReported(key, scanner.PlanetsMap[key].Host,
                         scanner.PlanetsMap[key].Port)
    /\ \A run \in scan.probed :
          ~run.result.Success =>
              /\ run.result.Error # << >>
              /\ run.result.Cubes = << >>
              /\ run.result.Planets = << >>

\* A failed result and a successful one were collected by ScanAllPods.
C12_Witness ==
    /\ scan.op = "ScanAllPods"
    /\ scan.pc = "idle"
    /\ DOMAIN scanner.CubesMap # {}
    /\ \E j \in 1..Len(scanner.Results) : ~scanner.Results[j].Success

\* The endpoints of the scanner: (host, StartPort + i*PortStep).
Endpoints(s) ==
    {<< s.Hosts[h], s.StartPort + (i * s.PortStep) >> :
        h \in 1..Len(s.Hosts), i \in 0..(s.NumPods - 1)}

\* Each endpoint has exactly one task.
OneTaskEach ==
    scan.pc = "scanning" =>
        /\ Len(scan.tasks) = scanner.NumPods * Len(scanner.Hosts)
        /\ \A e \in Endpoints(scanner) :
              Cardinality({t \in DOMAIN scan.tasks :
                              scan.tasks[t].host = e[1] /\ scan.tasks[t].port = e[2]}) = 1

\* A task that is to send finds room in the channel.
NoSendBlocks ==
    scan.pc = "scanning" =>
        \A t \in DOMAIN scan.tasks :
            scan.tasks[t].pc = "send" => Len(scan.resultsChan) < scan.capacity

\* The step that closes and drains the channel: every task is done, and
\* Results gains the tasks' results, one each.
Collects ==
    (scan.pc = "scanning" /\ scan'.pc = "idle") =>
        LET n     == scanner.NumPods * Len(scanner.Hosts)
            old   == Len(scanner.Results)
            added == SubSeq(scanner'.Results, old + 1, Len(scanner'.Results))
        IN  /\ \A t \in DOMAIN scan.tasks : scan.tasks[t].pc = "done"
            /\ Len(scanner'.Results) = old + n
            /\ SubSeq(scanner'.Results, 1, old) = scanner.Results
            /\ \E f \in [1..n -> 1..n] :
                  /\ \A j, k \in 1..n : j # k => f[j] # f[k]
                  /\ \A t \in 1..n : added[f[t]] = scan.tasks[t].result

\* C13: one ScanAllPods probes each endpoint (host, StartPort + i*PortStep)
\* exactly once in its own task, adds NumPods*len(Hosts) results to
\* Results, no task ever finds the results channel full, and the channel is
\* drained only when every task is done.
C13_ScanAllPods ==
    /\ [](OneTaskEach /\ NoSendBlocks)
    /\ [][Collects /\ (scan'.pc = "scanning" => scanner' = scanner)]_vars

\* Two tasks: one has delivered its result, the other is about to.
C13_Witness ==
    /\ scan.pc = "scanning"
    /\ Len(scan.tasks) = 2
    /\ Len(scan.resultsChan) = 1
    /\ \E t \in DOMAIN scan.tasks : scan.tasks[t].pc = "send"

\* C14: after ScanAllPods ran twice on a scanner, Results holds exactly one
\* PodResult for each endpoint.
C14_OneResultPerEndpoint ==
    (scan.pc = "idle" /\ scan.scans = 2) =>
        \A e \in Endpoints(scanner) :
            Cardinality({j \in 1..Len(scanner.Results) :
                            /\ scanner.Results[j].Host = e[1]
                            /\ scanner.Results[j].Port = e[2]}) = 1

\* C15: ScanSinglePod leaves Results as it was, whether the probe succeeds
\* or fails; AddPodResult appends the result it is given.
C15_SingleLeavesResults ==
    [][/\ (scan'.op = "ScanSinglePod" /\ scan'.calls = scan.calls + 1) =>
              scanner'.Results = scanner.Results
       /\ (scan'.op = "AddPodResult" /\ scan'.calls = scan.calls + 1) =>
              \E result \in scan.held :
                  scanner'.Results = Append(scanner.Results, result)]_vars

\* A successful single probe after which Results is still empty.
C15_Witness ==
    /\ scan.op = "ScanSinglePod"
    /\ scanner.Results = << >>
    /\ \E run \in scan.probed : run.result.Success

\* C16: ScanSinglePod leaves PlanetsMap and CubesMap as they were: after a
\* first call on a fresh scanner, both are still empty.
C16_SingleLeavesMaps ==
    (scan.op = "ScanSinglePod" /\ scan.calls = 1) =>
        (DOMAIN scanner.CubesMap = {} /\ DOMAIN scanner.PlanetsMap = {})

\* The stages a trace went through.
Stages(trace) ==
    LET st == SelectSeq(trace, LAMBDA e : e.ev = "stage")
    IN  [k \in 1..Len(st) |-> st[k].msg]

StageOrder == << "pending", "connected", "authenticated", "inventoried" >>

\* The probe went forward through the stages and ended in success or failed.
Forward(run) ==
    LET st == Stages(run.trace)
    IN  /\ Len(st) >= 2
        /\ \A k \in 1..(Len(st) - 1) : k <= 4 /\ st[k] = StageOrder[k]
        /\ st[Len(st)] \in {"success", "failed"}
        /\ st[Len(st)] = "success" <=> Len(st) = 5
        /\ run.result.Success <=> st[Len(st)] = "success"

\* What the probe wrote, and when, is what the protocol allows.
InOrder(run) ==
    LET tr  == run.trace
        pod == Behaviour(run.kind, run.result.Host, run.result.Port)
    IN  /\ Cardinality({j \in 1..Len(tr) : tr[j].ev = "dial"}) = 1
        /\ \A j \in 1..Len(tr) :
              /\ tr[j] = Ev("write", "get_cube_list") =>
                    /\ \E i \in 1..(j - 1) : tr[i] = Ev("read", "auth")
                    /\ \E k \in 1..Len(pod.authResp) : pod.authResp[k] = "auth_success"
              /\ tr[j] = Ev("write", "get_planets") =>
                    /\ \E i \in 1..(j - 1) : tr[i] = Ev("read", "get_cube_list")
                    /\ pod.cubesRaw.json
                    /\ pod.cubesRaw.value.t = "obj"
              /\ tr[j] = Ev("stage", "failed") =>
                    \A i \in (j + 1)..Len(tr) : tr[i].ev \notin {"write", "dial", "read"}
        /\ \A i, j \in 1..Len(tr) :
              (i # j /\ tr[i].ev = "write") => tr[i] # tr[j]

\* C17: a probe goes pending -> connected -> authenticated -> inventoried
\* -> success | failed without a step back or a retry; it sends
\* get_cube_list only after reading an auth response with "auth_success",
\* get_planets only after the cube list was parsed, and nothing after it
\* has failed.
C17_ProbeStages == \A run \in scan.probed : Forward(run) /\ InOrder(run)

\* A probe that succeeded and one that failed on the planets, after the
\* cubes.
C17_Witness ==
    /\ \E run \in scan.probed : run.kind = "ok"
    /\ \E run \in scan.probed : run.kind = "planets_garbage"

\* C18: a probe whose cube-list or planets response is malformed JSON or of
\* an unexpected shape ends with Success = false.
C18_BadInventoryFails ==
    \A run \in scan.probed :
        run.kind \in {"cubes_garbage", "cubes_missing", "cubes_not_array",
                      "planets_garbage", "planets_shape"}
            => ~run.result.Success

\* Some coordinate of the position is not finite.
NonFinite(position) == \E c \in 1..3 : position[c] = NaN

\* A spawn_cube message for the cube was written.
SpawnWritten(cube) ==
    \E m \in BagToSet(net.sent) : m.type = "spawn_cube" /\ m.cube_name = cube.Name

\* <name>_BASE is in globalCubeList.
Recorded(cube) ==
    \E k \in 1..Len(globalCubeList) :
        globalCubeList[k] = cube.Name \o << "_", "B", "A", "S", "E" >>

\* C19: for a part with a non-finite coordinate no spawn_cube message is
\* written and no <name>_BASE recorded, while its finite siblings are
\* spawned and recorded (when nothing else fails).
C19_NonFinitePartSkipped ==
    \A i \in DOMAIN con : \A p \in DOMAIN con[i].parts :
        LET part == con[i].parts[p]
        IN  IF NonFinite(part.cube.Position)
            THEN ~SpawnWritten(part.cube) /\ ~Recorded(part.cube)
            ELSE (part.pc = "done" /\ faults = 0) =>
                    (SpawnWritten(part.cube) /\ Recorded(part.cube))

\* A construct with a non-finite part and a finite one, both tasks over,
\* and one cube recorded.
C19_Witness ==
    /\ faults = 0
    /\ Len(globalCubeList) = 1
    /\ \E i \in DOMAIN con :
          /\ Len(con[i].parts) = 2
          /\ \A p \in DOMAIN con[i].parts : con[i].parts[p].pc = "done"
          /\ \E p \in DOMAIN con[i].parts : NonFinite(con[i].parts[p].cube.Position)

\* C20: the spawn tasks of parts with a non-finite coordinate open no
\* connection: while a construct all of whose parts are non-finite is in
\* its fan-out, nothing was dialled.
C20_NonFiniteNoDial ==
    \A i \in DOMAIN con :
        (/\ con[i].pc = "parts"
         /\ con[i].parts # << >>
         /\ \A p \in DOMAIN con[i].parts : NonFinite(con[i].parts[p].cube.Position))
            => net.dials = 0

\* Construct i has loaded its template.
Loaded(i) == DOMAIN con[i].Config # {}

\* The link_cube_chains commands written so far that carry the chains of
\* construct i.
LinkCommands(i) ==
    LET sent == net.sent
    IN  {m \in BagToSet(sent) :
            /\ m.type = "link_cube_chains"
            /\ Loaded(i)
            /\ m.chains = AdjustedChains(con[i].Config.Chains)}

\* How often the link command of construct i was written.
LinkCount(i) ==
    LET sent == net.sent
        cmds == LinkCommands(i)
    IN  IF cmds = {} THEN 0 ELSE CopiesIn(CHOOSE m \in cmds : TRUE, sent)

\* Every link_cube_chains command written carries the whole chain list of
\* one construct.
WholeChains ==
    \A m \in BagToSet(net.sent) :
        m.type = "link_cube_chains" =>
            \E i \in DOMAIN con :
                /\ con[i].pc \in {"unfreeze", "done"}
                /\ Loaded(i)
                /\ m.chains = AdjustedChains(con[i].Config.Chains)

\* Within Construct.Spawn every spawn task is started at the fan-out, and
\* the link command is written once, after all of them returned.
SpawnThenLink ==
    \A i \in DOMAIN con :
        /\ con[i].pc = "parts" =>
              /\ Len(con[i].parts) = Len(con[i].Config.Cubes)
              /\ Len(con[i].parts) > 0
              /\ LinkCount(i) = 0
        /\ con[i].pc \in {"load", "spawn"} => con[i].parts = << >>
        /\ con[i].pc = "unfreeze" => LinkCount(i) = 1
        /\ LinkCount(i) <= 1
        /\ LinkCount(i) = 1 =>
              \A p \in DOMAIN con[i].parts : con[i].parts[p].pc = "done"

\* A step that writes a link_cube_chains command is taken when every spawn
\* task of its construct has returned.
LinkAfterParts ==
    \A i \in DOMAIN con :
        (con[i].pc = "parts" /\ con'[i].pc \in {"unfreeze", "done"}) =>
            \A p \in DOMAIN con[i].parts : con[i].parts[p].pc = "done"

\* C21: within one Construct.Spawn all part-spawn tasks are started
\* together, the link command is written only after each of them has
\* returned, and one command carries all chains.
C21_LinkAfterSpawns == [](WholeChains /\ SpawnThenLink) /\ [][LinkAfterParts]_vars

\* Two constructs were linked, one of them with a spawn task that failed.
C21_Witness ==
    /\ Len(con) = 2
    /\ faults = 1
    /\ \A i \in DOMAIN con : LinkCount(i) = 1
    /\ Len(globalCubeList) < Len(con[1].parts) + Len(con[2].parts)

\* The tasks that have not returned.
Alive == {t \in DOMAIN con : con[t].pc > 0}

\* The connections task t opened that are still open.
OpenOf(t) == {c \in net.open : c[1] = t}

\* A task that has returned left no connection open, whichever way it
\* returned, and so none is open when all have returned.
ClosedOnReturn ==
    /\ \A t \in DOMAIN con : con[t].pc = 0 => OpenOf(t) = {}
    /\ Alive = {} => net.open = {}

\* An open connection is the one its task holds, and a task writes to and
\* reads from a connection it opened and has not closed.
OwnConnection ==
    /\ \A c \in net.open : \A t \in DOMAIN con : con[t].conn = c => c[1] = t
    /\ \A t \in DOMAIN con : OpenOf(t) \subseteq {con[t].conn}
    /\ \A t \in Alive :
          Current(t).op \in {"write", "read", "inventory", "despawn", "close"}
              => con[t].conn \in OpenOf(t)

\* C22: every connection a task opens is closed on every exit path of the
\* task; when all tasks are over none is open; none is used by two tasks.
C22_ConnectionsClosed == ClosedOnReturn /\ OwnConnection

\* Every task is over, and one of them gave up when its password write
\* failed, after it had dialled.
C22_Witness ==
    /\ Alive = {}
    /\ net.dials > 1
    /\ \E t \in DOMAIN con :
          /\ Len(con[t].log) = 3
          /\ con[t].log[1].op = "dial" /\ con[t].log[1].ok
          /\ con[t].log[2].op = "write" /\ con[t].log[2].arg = "auth"
          /\ ~con[t].log[2].ok
          /\ con[t].log[3].op = "close"

\* Task t is about to append to globalCubeList.
AppendsCube(t) == At(t, "append") /\ Current(t).arg = "cube"

\* C23: while a spawn task appends to globalCubeList, a task that reads
\* the list (the range loop of a sweep) holds cubeListMutex.
C23_CubeListUnderMutex ==
    \A w \in DOMAIN con : \A r \in DOMAIN con :
        (w # r /\ AppendsCube(w) /\ At(r, "scan")) => fleet.mutex["cube"] = r

\* The registry mutexes task t holds.
Holds(t) == {m \in DOMAIN fleet.mutex : fleet.mutex[m] = t}

\* The next thing task t does is a network operation: a dial, a write, a
\* read or a close, in line or deferred.
NetworkNext(t) ==
    /\ con[t].pc > 0
    /\ \/ Current(t).op \in {"dial", "write", "read", "inventory", "despawn", "close"}
       \/ /\ Current(t).op = "return"
          /\ con[t].defers # << >>
          /\ con[t].defers[Len(con[t].defers)].op = "close"

\* A mutex is held by a task that is neither over nor waiting for
\* anything, and while tasks remain one of them can take a step.
NoDeadlock ==
    /\ \A m \in DOMAIN fleet.mutex :
          fleet.mutex[m] # 0 =>
              /\ fleet.mutex[m] \in Alive
              /\ Current(fleet.mutex[m]).op \notin {"lock", "wait"}
    /\ Alive # {} => ENABLED TasksNext

\* C24: no registry mutex is held across a network operation, every
\* mutex taken is released on every path, and the registries cannot
\* deadlock.
C24_NoMutexAcrossNetwork ==
    /\ \A t \in DOMAIN con : (NetworkNext(t) \/ con[t].pc = 0) => Holds(t) = {}
    /\ NoDeadlock

\* A spawn task holds cubeListMutex while another waits for it, and the
\* link's records were appended under linkListMutex earlier on.
C24_Witness ==
    \E t \in DOMAIN con : \E u \in DOMAIN con :
        /\ fleet.mutex["cube"] = t
        /\ At(u, "lock") /\ Current(u).arg = "cube"
        /\ net.open # {}

\* C25: once the despawn of a unit has returned, globalCubeList holds no
\* name with the unit's prefix and globalCubeLinks no link between such
\* cubes.
C25_DespawnPurges ==
    (fleet.pc = "despawn" \/ (fleet.pc = "done" /\ fleet.result = "ok")) =>
        \A u \in 1..(fleet.next - 1) :
            /\ Matching(fleet.unitNames[u]) = {}
            /\ \A k \in 1..Len(globalCubeLinks) :
                  ~HasPrefix(globalCubeLinks[k].CubeA, fleet.unitNames[u] \o Underscore)

\* A despawn_cube command was written.
DespawnSent == \E m \in BagToSet(net.sent) : m.type = "despawn_cube"

\* The teardown runs, or a despawn was sent, only with every goroutine of
\* the fleet over; a call that went through the teardown went through it
\* for every unit.
TeardownAfterJoin ==
    /\ (fleet.pc = "despawn" \/ DespawnSent) =>
          /\ \A i \in DOMAIN con : con[i].pc = "done"
          /\ fleet.next \in 1..(fleet.numConstructs + 1)
    /\ (fleet.pc = "done" /\ fleet.result = "ok") =>
          fleet.next = fleet.numConstructs + 1
    /\ fleet.pc \in {"start", "spawning"} => ~DespawnSent

\* A step of the teardown deals with the next unit and no other: what it
\* writes are despawn commands for cubes of that unit.
TeardownInOrder ==
    (fleet.pc = "despawn" /\ fleet'.next # fleet.next) =>
        /\ fleet'.next = fleet.next + 1
        /\ \A m \in BagToSet(net'.sent) :
              CopiesIn(m, net'.sent) > CopiesIn(m, net.sent) =>
                  /\ m.type = "despawn_cube"
                  /\ HasPrefix(m.cube_name, fleet.unitNames[fleet.next] \o Underscore)

\* C26: the teardown of SpawnMultipleConstructs starts when every
\* per-construct task is over and despawns the units one at a time in
\* index order, the failed ones included; no despawn is sent earlier.
C26_TeardownAfterJoin == []TeardownAfterJoin /\ [][TeardownInOrder]_vars

\* A fleet of two went through the teardown although one of its
\* constructs failed to load, and cubes of the other were despawned.
C26_Witness ==
    /\ fleet.pc = "done"
    /\ fleet.result = "ok"
    /\ fleet.numConstructs = 2
    /\ \E i \in DOMAIN con : ~Loaded(i)
    /\ DespawnSent

\* The event is the get_cube_list request, or its answer.
IsRequest(e) == e.op = "write" /\ e.arg = "get_cube_list"
IsInventory(e) == e.op = "read" /\ e.arg = "get_cube_list"

\* From index k on the log holds nothing but the close of the connection.
OnlyClose(log, k) ==
    k > Len(log) \/ (k = Len(log) /\ log[k].op = "close")

\* From index k on the log holds despawn_cube commands for the names
\* cubes[j], cubes[j+1], ..., one each and in this order, as far as it goes.
RECURSIVE DespawnsFrom(_, _, _, _)
DespawnsFrom(log, k, cubes, j) ==
    \/ j > Len(cubes)
    \/ k > Len(log)
    \/ /\ log[k].op = "write"
       /\ log[k].arg = "despawn_cube"
       /\ log[k].name = cubes[j]
       /\ DespawnsFrom(log, k + 1, cubes, j + 1)

\* From index k on the log is that of the passes pass, pass + 1, ...: one
\* request, its answer, one despawn per name of the answer; nothing but
\* the close after an empty answer, after a failure and after pass 5.
RECURSIVE PassesFrom(_, _, _)
PassesFrom(log, k, pass) ==
    \/ OnlyClose(log, k)
    \/ /\ pass <= NukeMaxRetries
       /\ IsRequest(log[k])
       /\ IF ~log[k].ok
          THEN OnlyClose(log, k + 1)
          ELSE \/ k + 1 > Len(log)
               \/ /\ IsInventory(log[k + 1])
                  /\ IF ~log[k + 1].ok \/ log[k + 1].name = << >>
                     THEN OnlyClose(log, k + 2)
                     ELSE LET cubes == log[k + 1].name
                          IN  /\ DespawnsFrom(log, k + 2, cubes, 1)
                              /\ PassesFrom(log, k + 2 + Len(cubes), pass + 1)

\* The log of nukeAllCubes after the password exchange is one of passes.
NukePasses ==
    \A t \in DOMAIN con :
        con[t].kind = "nuke" =>
            /\ con[t].attempt <= NukeMaxRetries
            /\ Len(con[t].log) >= 3 => PassesFrom(con[t].log, 4, 1)
            /\ Len(con[t].log) < 3 => \A k \in 1..Len(con[t].log) :
                                         ~IsRequest(con[t].log[k])

\* nukeAllCubes has returned.
NukeOver == \A t \in DOMAIN con : con[t].pc = 0

\* C27: nukeAllCubes ends after at most 5 passes; a pass is one
\* get_cube_list request and one despawn_cube per name of the answer, and
\* nothing is sent after the first empty inventory.
C27_NukePasses == []NukePasses /\ <>NukeOver

\* The number of requests in the log.
Requests(log) == Cardinality({k \in 1..Len(log) : IsRequest(log[k])})

\* A nuke of five passes, and cubes despawned in the last.
C27_Witness ==
    /\ NukeOver
    /\ \E t \in DOMAIN con :
          /\ Requests(con[t].log) = NukeMaxRetries
          /\ con[t].log[Len(con[t].log) - 1].arg = "despawn_cube"

\* C28: an inventory request, read or parse that fails on a pass before
\* the fifth is followed by a further pass.
C28_NukeRetries ==
    NukeOver =>
        \A t \in DOMAIN con : \A k \in 1..Len(con[t].log) :
            (/\ con[t].log[k].arg = "get_cube_list"
             /\ ~con[t].log[k].ok
             /\ Requests(SubSeq(con[t].log, 1, k)) < NukeMaxRetries)
                => \E j \in (k + 1)..Len(con[t].log) : IsRequest(con[t].log[j])

\* readResponse has returned.
ReadDone == call.op = "readResponse" /\ call.pc = "done"

\* What conn delivered up to the end of the delimiter's first occurrence.
UpToDelimiter(s) ==
    LET k == CHOOSE j \in 0..(Len(s) - Len(delimiter)) :
                 /\ SubSeq(s, j + 1, j + Len(delimiter)) = delimiter
                 /\ \A i \in 0..(j - 1) :
                        SubSeq(s, i + 1, i + Len(delimiter)) # delimiter
    IN  SubSeq(s, 1, k + Len(delimiter))

\* C29: on a stream that contains the delimiter the loop of readResponse
\* ends on seeing it, not on the deadline or the end of the stream, and
\* the payload is what was received, the delimiter taken out, trimmed.
C29_StopsAtDelimiter ==
    (ReadDone /\ StringsContains(call.stream, delimiter))
        => /\ call.exit = "delimiter"
           /\ ret = TrimSpace(ReplaceAll(UpToDelimiter(call.stream),
                                         delimiter, << >>))

\* C30: on a stream that ends (deadline or close) with no delimiter in it,
\* readResponse returns all the bytes that came, trimmed.
C30_NoByteLost ==
    (ReadDone /\ ~StringsContains(call.stream, delimiter))
        => ret = TrimSpace(call.stream)

\* The place in the log of the dial of the connection in use at place k.
LastDial(log, k) ==
    LET dials == {j \in 1..(k - 1) : log[j].op = "dial" /\ log[j].ok}
    IN  IF dials = {} THEN 0
        ELSE CHOOSE j \in dials : \A i \in dials : i <= j

\* The write at place k is the first one on its connection.
FirstWrite(log, k) ==
    \A j \in (LastDial(log, k) + 1)..(k - 1) : log[j].op # "write"

\* On each connection of the log the first write is the password, and a
\* command is written only after a password write that went through.
AuthFirst(log) ==
    \A k \in 1..Len(log) :
        log[k].op = "write" =>
            /\ LastDial(log, k) > 0
            /\ FirstWrite(log, k) <=> log[k].arg = "auth"
            /\ log[k].arg # "auth" =>
                  \E j \in (LastDial(log, k) + 1)..(k - 1) :
                      /\ log[j].op = "write" /\ log[j].arg = "auth" /\ log[j].ok
                      /\ FirstWrite(log, j)

\* C31: on every connection a goroutine opens (spawn, link, freeze,
\* despawn, nuke, joint parameters, pod probe) the first write is the
\* password with the delimiter, and no JSON command is written before it.
C31_AuthFirst == \A t \in DOMAIN con : AuthFirst(con[t].log)

\* A command went out on one connection, and on another the password
\* write failed and nothing more was written.
C31_Witness ==
    \E t, u \in DOMAIN con :
        /\ \E k \in 1..Len(con[t].log) :
              /\ con[t].log[k].op = "write" /\ con[t].log[k].arg # "auth"
              /\ con[t].log[k].ok
        /\ con[u].pc = 0
        /\ \E k \in 1..Len(con[u].log) :
              /\ con[u].log[k].op = "write" /\ con[u].log[k].arg = "auth"
              /\ ~con[u].log[k].ok
              /\ \A j \in (k + 1)..Len(con[u].log) : con[u].log[j].op # "write"

\* How often name is in globalCubeList.
Entries(name) == Cardinality({k \in 1..Len(globalCubeList) : globalCubeList[k] = name})

\* How many spawn_cube messages for the cube were written without error.
SpawnsSent(cube) ==
    LET msgs == {m \in BagToSet(net.sent) :
                    m.type = "spawn_cube" /\ m.cube_name = cube.Name}
    IN  IF msgs = {} THEN 0
        ELSE CopiesIn(CHOOSE m \in msgs : TRUE, net.sent) + Cardinality(msgs) - 1

\* The spawn tasks of construct i were started and have all returned.
FannedOut(i) == con[i].parts # << >> /\ PartsJoined(i)

\* The parts of construct i that are in globalCubeList.
RecordedParts(i) == {p \in DOMAIN con[i].parts : Recorded(con[i].parts[p].cube)}

\* C32: <part>_BASE is in globalCubeList once for a part whose spawn_cube
\* was written without error and not at all for any other part, and after
\* the fan-out of a construct only the parts whose own task failed are
\* missing: as many at most as failures were met.
C32_RecordedIffSent ==
    \A i \in DOMAIN con : \A p \in DOMAIN con[i].parts :
        LET part == con[i].parts[p]
        IN  /\ Entries(part.cube.Name \o BaseSuffix) = SpawnsSent(part.cube)
            /\ SpawnsSent(part.cube) <= 1
            /\ part.pc = "run" => SpawnsSent(part.cube) = 0
            /\ FannedOut(i) =>
                  Len(con[i].parts) - Cardinality(RecordedParts(i)) <= faults

\* A fan-out of three parts is over: the send of one failed, and its two
\* siblings are recorded.
C32_Witness ==
    \E i \in DOMAIN con :
        /\ FannedOut(i)
        /\ Len(con[i].parts) = 3
        /\ Cardinality(RecordedParts(i)) = 2
        /\ net.dials >= 3

\* How often name is in the list.
Count(list, name) == Cardinality({k \in 1..Len(list) : list[k] = name})

\* C33: under every interleaving of the goroutines of
\* spawnConstructsAroundSphere, once all are over allUnits holds each
\* generated unit name exactly once, and the teardown loop has despawned
\* every unit that was built when the function returns.
C33_NoLostUnit ==
    (call.op = "spawnConstructsAroundSphere" /\ call.pc \in {"despawn", "done"})
        => /\ \A g \in DOMAIN call.tasks :
                 Count(call.allUnits, call.tasks[g].unitName) = 1
           /\ call.pc = "done" =>
                 \A name \in call.built : Count(call.despawned, name) = 1

\* C34: every freeze_cube and every despawn_cube command of a fleet goes
\* to the server address SpawnMultipleConstructs was called with, the one
\* its cubes were spawned on.
C34_SweepsOnFleetServer ==
    \A m \in BagToSet(net.sent) :
        m.type \in {"freeze_cube", "despawn_cube"} => m.addr = fleet.serverAddr

\* The generation and the version of the fleet's unit k.
GenOf(k) == call.startGen + ((k - 1) \div 100)
VersionOf(k) == call.startVersion + ((k - 1) % 100)

\* C35: generateUnitID gives the same id for the same arguments and, role
\* and domain fixed, different ids for different (gen, version); the ids
\* of the units of one fleet are pairwise distinct.
C35_DistinctUnitIds ==
    call.op = "generateUnitID" =>
        /\ ret.id = ret.again
        /\ \A k \in 1..Len(ret.unitNames) :
              ret.unitNames[k] = ret.id
                  <=> (GenOf(k) = call.gen /\ VersionOf(k) = call.version)
        /\ \A j, k \in 1..Len(ret.unitNames) :
              ret.unitNames[j] = ret.unitNames[k] => j = k

\* A fleet of more than 100 units was named, so that its generation went
\* up, and the other id is that of one of its units.
C35_Witness ==
    /\ call.op = "generateUnitID"
    /\ Len(ret.unitNames) > 100
    /\ \E k \in 1..Len(ret.unitNames) : ret.unitNames[k] = ret.id

\* A sweep was called.
Swept == call.op \in {"freeze_cube", "despawn_cube"}

\* How many commands of the sweep were written for name.
CommandsFor(name) ==
    LET msgs == {m \in BagToSet(net.sent) : m.cube_name = name}
    IN  IF msgs = {} THEN 0 ELSE CopiesIn(CHOOSE m \in msgs : TRUE, net.sent)

\* The places of name in globalCubeList.
Places(name) == {k \in 1..Len(globalCubeList) : globalCubeList[k] = name}

\* C36: a sweep for unit U writes its command once for every entry of
\* globalCubeList that starts with U + "_", an entry that is there twice
\* getting two (the goroutine of an entry that cannot connect or write its
\* password writes none), and none for any other entry: none for a cube of
\* another unit, also when U is the head of that unit's id.
C36_OnePerMatchingEntry ==
    Swept =>
        /\ \A m \in BagToSet(net.sent) :
              /\ m.type = call.op
              /\ HasPrefix(m.cube_name, call.unitName \o Underscore)
              /\ \A u \in SweepUnits \ {call.unitName} :
                    ~HasPrefix(m.cube_name, u \o Underscore)
        /\ \A name \in SweepNames :
              /\ Cardinality({m \in BagToSet(net.sent) : m.cube_name = name}) <= 1
              /\ CommandsFor(name) =
                    IF HasPrefix(name, call.unitName \o Underscore)
                    THEN Cardinality(Places(name) \ call.failed)
                    ELSE 0

\* The sweep for version 1 ran on a list that holds a cube of version 1
\* twice and a cube of version 10: two commands were written.
C36_Witness ==
    /\ Swept
    /\ call.unitName = generateUnitID(Role, Domain, 1, 1)
    /\ faults = 0
    /\ \E name \in SweepNames : CommandsFor(name) = 2
    /\ \E k \in 1..Len(globalCubeList) :
          HasPrefix(globalCubeList[k], generateUnitID(Role, Domain, 1, 10))

\* The goroutines of the pool that were started and have not finished.
InFlight == {k \in DOMAIN call.tasks : call.tasks[k].pc \in {"joints", "send"}}

\* The call is over.
PoolDone == call.op = "GetCubesAndConnectionsParallel" /\ call.pc = "done"

\* The list is in the strict order of the cube names.
SortedByName(list) ==
    \A k \in 1..(Len(list) - 1) : StringLess(list[k].CubeName, list[k + 1].CubeName)

\* No more goroutines are in flight than sem has slots, and never more
\* than maxWorkers; while the call is not over some goroutine can take a
\* step; the call returns one CubeConnection for each matching cube, in
\* the order of the names.
PoolSafe ==
    call.op = "GetCubesAndConnectionsParallel" =>
        /\ Cardinality(InFlight) <= call.workers
        /\ Cardinality(InFlight) <= maxWorkers
        /\ ~PoolDone => ENABLED PoolNext
        /\ PoolDone =>
              LET matching == {key \in call.CubesMap : HasPrefix(key, call.prefix)}
              IN  /\ Len(ret.result) = Cardinality(matching)
                  /\ \A key \in matching :
                        Cardinality({k \in 1..Len(ret.result) :
                                        ret.result[k].CubeName = key}) = 1
                  /\ SortedByName(ret.result)

\* C37: GetCubesAndConnectionsParallel never has more requests in flight
\* than its pool allows (10), ends without deadlock, also when the cubes
\* outnumber the slots, and returns one CubeConnection for each matching
\* cube, sorted by cube name.
C37_PoolBounded == []PoolSafe /\ <>PoolDone

\* A call for three cubes with a pool of two is over: the pool was full,
\* and the results came in another order than that of the names.
C37_Witness ==
    /\ PoolDone
    /\ Len(call.cubes) = 3
    /\ call.workers = 2
    /\ call.peak = 2
    /\ Len(ret.result) = 3
    /\ call.result # ret.result

\* How many link_cube_chains commands were written.
LinkCommandsSent ==
    LET msgs == {m \in BagToSet(net.sent) : m.type = "link_cube_chains"}
    IN  IF msgs = {} THEN 0 ELSE CopiesIn(CHOOSE m \in msgs : TRUE, net.sent)

\* How many records of the list have the joint name.
JointCount(links, jointName) ==
    Cardinality({k \in 1..Len(links) : links[k].JointName = jointName})

\* C38: a call of linkCubeChainsWithConfig that fails to connect, to
\* write the password or to send returns an error and leaves
\* globalCubeLinks as it was; records are there only for commands that
\* were sent; and every call that succeeds appends the records of the
\* chains again, so that after two of them every joint name is there
\* twice as often as after one.
C38_LinkRecordsAfterSend ==
    call.op = "linkCubeChainsWithConfig" =>
        LET records == LinkRecords(call.chains, call.jointType)
        IN  /\ \A k \in 1..Len(ret) :
                  IF ret[k].err
                  THEN ret[k].after = ret[k].before
                  ELSE ret[k].after = ret[k].before \o records
            /\ Len(globalCubeLinks) = LinkCommandsSent * Len(records)
            /\ \A r \in 1..Len(records) :
                  JointCount(globalCubeLinks, records[r].JointName)
                      = LinkCommandsSent * JointCount(records, records[r].JointName)

\* The same chains were linked twice without error: every pair has two
\* records of the same joint name.
C38_Witness ==
    /\ call.op = "linkCubeChainsWithConfig"
    /\ Len(ret) = 2
    /\ ~ret[1].err /\ ~ret[2].err
    /\ globalCubeLinks # << >>
    /\ \A k \in 1..Len(globalCubeLinks) :
          JointCount(globalCubeLinks, globalCubeLinks[k].JointName) = 2

\* The template of construct i as LoadConfigFromJSON left it.
AsLoaded(i) == LoadConfigFromJSON(fleet.template, fleet.unitNames[i])

\* C39: Construct.Spawn leaves the loaded template as it was, whether it
\* returns an error or not: Config.Cubes keeps the relative positions and
\* the names, Config.Chains the names without "_BASE"; spawning again at
\* the same placement would hand out the same cubes, and GetCubesTable
\* reports the template's own coordinates.
C39_TemplateUnchanged ==
    \A i \in DOMAIN con :
        (fleet.pc \in {"spawning", "despawn", "done"} /\ Loaded(i)) =>
            /\ con[i].Config = AsLoaded(i)
            /\ con[i].pc = "done" =>
                  GetCubesTable(con[i].Config) = GetCubesTable(AsLoaded(i))
            /\ \A p \in DOMAIN con[i].parts :
                  con[i].parts[p].cube =
                      AdjustedCubes(con[i].Config.Cubes, con[i].orbit)[p]

\* Spawn has returned for a construct of two parts or more, whose cubes
\* were handed out at other positions than the template's, and a step on
\* the way had failed.
C39_Witness ==
    \E i \in DOMAIN con :
        /\ con[i].pc = "done"
        /\ Loaded(i)
        /\ Len(con[i].parts) > 1
        /\ faults = 1
        /\ \A p \in DOMAIN con[i].parts :
              con[i].parts[p].cube.Position # con[i].Config.Cubes[p].Position

\* C40: occupiedPositions holds at most one slot for a unit id, all of
\* them slots of the fleet being spawned, any two of them minDistance
\* = 4 * bounding radius apart or more, and no two constructs own the
\* same slot.
C40_SlotsApart ==
    fleet.pc \in {"spawning", "despawn", "done"} =>
        /\ \A k \in 1..Len(occupiedPositions) :
              \E i \in 1..Len(fleet.unitNames) :
                  occupiedPositions[k].UnitName = fleet.unitNames[i]
        /\ \A j, k \in 1..Len(occupiedPositions) :
              j # k =>
                  /\ occupiedPositions[j].UnitName # occupiedPositions[k].UnitName
                  /\ Dist(occupiedPositions[j].Position, occupiedPositions[k].Position)
                        >= fleet.minDistance
                           - Tolerance(Magnitude(occupiedPositions[j].Position))
                  /\ occupiedPositions[j].Position # occupiedPositions[k].Position

====
